---------------------------- MODULE Spec2Model ----------------------------
(***************************************************************************)
(* Channel injection into a signed ZIP-family archive                      *)
(* (src/src/core/walle_python_impl.py, class WallePythonImpl).             *)
(*                                                                         *)
(* A file is a sequence of bytes (naturals 0..255); offsets are 0-based as *)
(* in the source, sequences are 1-based as in TLA+.  Every locator, the    *)
(* pair codec and the injector are translated statement by statement and   *)
(* work on the real layout: a 22-byte EOCD record, 8-byte little-endian    *)
(* size fields, 4-byte identifiers, the 24-byte footer with its two magic  *)
(* words.                                                                  *)
(***************************************************************************)
EXTENDS Integers, Sequences, FiniteSets, TLC

(***************************************************************************)
(* Bounds of the model.                                                    *)
(***************************************************************************)
\* operations (inject_channel / get_channel calls) in one behaviour
MaxOps == 2
\* bytes of archive content in front of the signing container
PrefixLen == 2
\* bytes of the central directory
CdLen == 2
\* bytes of the Reserved Signature Entry's value
SigLen == 3

(***************************************************************************)
(* Bytes and little-endian integers (struct.pack / struct.unpack).         *)
(***************************************************************************)
Min(a, b) == IF a < b THEN a ELSE b

\* Python's s[a:b] for 0 <= a: the bytes at 0-based positions a .. b-1 that exist.
Slice(s, a, b) == SubSeq(s, a + 1, Min(b, Len(s)))

RECURSIVE Zeros(_)
Zeros(n) == IF n <= 0 THEN << >> ELSE <<0>> \o Zeros(n - 1)

\* Python integers are unbounded and the model's are 32 bits wide: every value
\* of 2^30 or more is represented by 2^30.  All files of the model are far
\* shorter, and the source uses unpacked values only as sizes and offsets.
Huge == 1073741824

\* struct.unpack('<H' | '<I' | '<Q', b)[0] for a b of the right length
RECURSIVE unpack(_)
unpack(b) ==
  IF b = << >> THEN 0
  ELSE LET hi == unpack(Tail(b))
       IN  IF hi >= Huge \div 256 THEN Huge ELSE 256 * hi + Head(b)

\* struct.pack of n into width little-endian bytes (n fits: see fits32)
RECURSIVE pack(_, _)
pack(n, width) ==
  IF width = 0 THEN << >> ELSE <<n % 256>> \o pack(n \div 256, width - 1)

\* struct.pack('<I', n) raises struct.error unless 0 <= n < 2^32
fits32(n) == n >= 0 /\ (n \div 65536) < 65536

(***************************************************************************)
(* Constants of the class.  A 4-byte identifier and an 8-byte magic word   *)
(* are kept as the byte strings struct.pack gives for them: unpack('<I')   *)
(* and unpack('<Q') are bijections, so comparing the bytes is comparing    *)
(* the integers.                                                           *)
(***************************************************************************)
\* 0x71777777
WALLE_CHANNEL_BLOCK_ID == <<119, 119, 119, 113>>
\* 0x20676953204b5041, "APK Sig "
APK_SIG_BLOCK_MAGIC_LO == <<65, 80, 75, 32, 83, 105, 103, 32>>
\* 0x3234206b636f6c42, "Block 42"
APK_SIG_BLOCK_MAGIC_HI == <<66, 108, 111, 99, 107, 32, 52, 50>>
\* 0x7109871a
APK_SIGNATURE_SCHEME_V2_BLOCK_ID == <<26, 135, 9, 113>>
\* 0x42726577
VERITY_PADDING_BLOCK_ID == <<119, 101, 114, 66>>
APK_SIG_BLOCK_MIN_SIZE == 32
\* 0x06054b50, the literal of _get_comment_length
EOCD_SIGNATURE == <<80, 75, 5, 6>>
\* the 22 bytes of an EOCD record without its comment
EOCD_MIN_SIZE == 22
\* the largest ZIP comment
MAX_COMMENT == 65535

(***************************************************************************)
(* Results.  A function that raises returns ok = FALSE and the kind of     *)
(* exception in err; the other fields are then padding.                    *)
(***************************************************************************)
Raise(e) == [ok |-> FALSE, err |-> e, value |-> 0, block |-> << >>]
Return(v, b) == [ok |-> TRUE, err |-> "none", value |-> v, block |-> b]

(***************************************************************************)
(* _get_comment_length: the scan for the EOCD record.                      *)
(***************************************************************************)
\* one iteration of the for loop, for the candidate expected_comment_length
EocdMatches(file, expected_comment_length) ==
  LET eocd_pos == Len(file) - EOCD_MIN_SIZE - expected_comment_length
  IN  /\ Slice(file, eocd_pos, eocd_pos + 4) = EOCD_SIGNATURE
      /\ unpack(Slice(file, eocd_pos + 20, eocd_pos + 22)) = expected_comment_length

\* a scan that takes the first signature it meets, whatever its length field
RECURSIVE ScanCommentLength_SignatureOnly(_, _, _)
ScanCommentLength_SignatureOnly(file, expected_comment_length, max_comment_length) ==
  LET eocd_pos == Len(file) - EOCD_MIN_SIZE - expected_comment_length
  IN  IF expected_comment_length > max_comment_length
        THEN Raise("SignatureNotFound:eocd")
      ELSE IF Slice(file, eocd_pos, eocd_pos + 4) = EOCD_SIGNATURE
        THEN Return(expected_comment_length, << >>)
      ELSE ScanCommentLength_SignatureOnly(file, expected_comment_length + 1,
                                           max_comment_length)

RECURSIVE ScanCommentLength(_, _, _)
ScanCommentLength(file, expected_comment_length, max_comment_length) ==
  IF expected_comment_length > max_comment_length
    THEN Raise("SignatureNotFound:eocd")
  ELSE IF EocdMatches(file, expected_comment_length)
    THEN Return(expected_comment_length, << >>)
  ELSE ScanCommentLength(file, expected_comment_length + 1, max_comment_length)

_get_comment_length(file) ==
  ScanCommentLength(file, 0, Min(Len(file) - EOCD_MIN_SIZE, MAX_COMMENT))

(***************************************************************************)
(* _find_central_dir_start_offset: the u32 six bytes before the comment.   *)
(***************************************************************************)
\* the offset field taken two bytes late
_find_central_dir_start_offset_Late(file, comment_length) ==
  LET at == Len(file) - comment_length - 4
  IN  unpack(Slice(file, at, at + 4))

_find_central_dir_start_offset(file, comment_length) ==
  LET at == Len(file) - comment_length - 6
  IN  unpack(Slice(file, at, at + 4))

(***************************************************************************)
(* _find_apk_signing_block.  value is the container's offset, block its    *)
(* bytes.  A read past the end of the file is short, and unpacking a short *)
(* string raises struct.error.                                             *)
(***************************************************************************)
_find_apk_signing_block(file, central_dir_offset) ==
  IF central_dir_offset < APK_SIG_BLOCK_MIN_SIZE
    THEN Raise("SignatureNotFound:too_small")
  ELSE
    LET footer == Slice(file, central_dir_offset - 24, central_dir_offset)
    IN
    IF Len(Slice(footer, 8, 16)) # 8 \/ Len(Slice(footer, 16, 24)) # 8
      THEN Raise("struct.error")
    ELSE IF \/ Slice(footer, 8, 16) # APK_SIG_BLOCK_MAGIC_LO
            \/ Slice(footer, 16, 24) # APK_SIG_BLOCK_MAGIC_HI
      THEN Raise("SignatureNotFound:magic")
    ELSE
      LET footer_size == unpack(Slice(footer, 0, 8))
          apk_signing_block_size == footer_size + 8
          apk_signing_block_offset == central_dir_offset - apk_signing_block_size
          apk_signing_block ==
            Slice(file, apk_signing_block_offset,
                  apk_signing_block_offset + apk_signing_block_size)
      IN
      IF apk_signing_block_offset < 0
        THEN Raise("SignatureNotFound:offset")
      ELSE IF unpack(Slice(apk_signing_block, 0, 8)) # footer_size
        THEN Raise("SignatureNotFound:size_mismatch")
      ELSE Return(apk_signing_block_offset, apk_signing_block)


(***************************************************************************)
(* The dict of _find_id_values: Python dicts keep insertion order, so a    *)
(* dict is the sequence of its items; assigning to a key that is present   *)
(* keeps the key's place.                                                  *)
(***************************************************************************)
DictHas(d, k) == \E i \in 1..Len(d) : d[i].id = k
DictGet(d, k) == d[CHOOSE i \in 1..Len(d) : d[i].id = k].value
\* an assignment that keeps the value a key already has
DictSet_KeepFirst(d, k, v) ==
  IF DictHas(d, k) THEN d ELSE Append(d, [id |-> k, value |-> v])

\* an assignment that moves a key it finds to the end
DictSet_MoveToEnd(d, k, v) ==
  Append(SelectSeq(d, LAMBDA e : e.id # k), [id |-> k, value |-> v])

DictSet(d, k, v) ==
  IF DictHas(d, k)
    THEN [i \in 1..Len(d) |-> IF d[i].id = k THEN [id |-> k, value |-> v] ELSE d[i]]
    ELSE Append(d, [id |-> k, value |-> v])
DictDel(d, k) == SelectSeq(d, LAMBDA e : e.id # k)

(***************************************************************************)
(* _find_id_values: the while loop over the pairs.                         *)
(***************************************************************************)
RECURSIVE FindIdValuesLoop(_, _, _, _)
FindIdValuesLoop(apk_signing_block, pos, end, id_values) ==
  IF ~(pos < end) THEN id_values
  ELSE
    LET entry_size == unpack(Slice(apk_signing_block, pos, pos + 8))
        entry_id == Slice(apk_signing_block, pos + 8, pos + 12)
        value_size == entry_size - 4
        entry_value == Slice(apk_signing_block, pos + 12, pos + 12 + value_size)
    IN  FindIdValuesLoop(apk_signing_block, pos + 12 + value_size, end,
                         DictSet(id_values, entry_id, entry_value))

_find_id_values(apk_signing_block) ==
  FindIdValuesLoop(apk_signing_block, 8, Len(apk_signing_block) - 24, << >>)

(***************************************************************************)
(* _create_apk_signing_block.                                              *)
(***************************************************************************)
\* pairs whose size field is written as 4 bytes
RECURSIVE PairsData_ShortSize(_)
PairsData_ShortSize(id_values) ==
  IF id_values = << >> THEN << >>
  ELSE LET e == Head(id_values)
       IN  pack(4 + Len(e.value), 4) \o e.id \o e.value \o PairsData_ShortSize(Tail(id_values))

RECURSIVE PairsData(_)
PairsData(id_values) ==
  IF id_values = << >> THEN << >>
  ELSE LET e == Head(id_values)
       IN  pack(4 + Len(e.value), 8) \o e.id \o e.value \o PairsData(Tail(id_values))

\* a container whose size fields count the leading size field too
_create_apk_signing_block_SizeWithSelf(id_values) ==
  LET pairs_data == PairsData(id_values)
      total_size == 8 + Len(pairs_data) + 24
  IN  pack(total_size, 8) \o pairs_data \o pack(total_size, 8)
        \o APK_SIG_BLOCK_MAGIC_LO \o APK_SIG_BLOCK_MAGIC_HI

_create_apk_signing_block(id_values) ==
  LET pairs_data == PairsData(id_values)
      total_size == 8 + Len(pairs_data) + 24
  IN  pack(total_size - 8, 8) \o pairs_data \o pack(total_size - 8, 8)
        \o APK_SIG_BLOCK_MAGIC_LO \o APK_SIG_BLOCK_MAGIC_HI

(***************************************************************************)
(* The channel value.  A channel is a Python str: a sequence of code       *)
(* points.  create_channel_info is json.dumps({'channel': channel},        *)
(* ensure_ascii=False); inject_channel encodes the text as UTF-8.          *)
(***************************************************************************)
HexDigit(d) == IF d < 10 THEN 48 + d ELSE 87 + d

\* json.encoder.py_encode_basestring: the escape of one character
JsonEscapeChar(c) ==
  CASE c = 34 -> <<92, 34>>
    [] c = 92 -> <<92, 92>>
    [] c = 10 -> <<92, 110>>
    [] c = 13 -> <<92, 114>>
    [] c = 9  -> <<92, 116>>
    [] c = 8  -> <<92, 98>>
    [] c = 12 -> <<92, 102>>
    [] c < 32 /\ c \notin {8, 9, 10, 12, 13} ->
         <<92, 117, 48, 48, HexDigit(c \div 16), HexDigit(c % 16)>>
    [] OTHER -> <<c>>

RECURSIVE JsonEscape(_)
JsonEscape(s) ==
  IF s = << >> THEN << >> ELSE JsonEscapeChar(Head(s)) \o JsonEscape(Tail(s))

\* the text  {"channel": "  and  "}
JsonOpen == <<123, 34, 99, 104, 97, 110, 110, 101, 108, 34, 58, 32, 34>>
JsonClose == <<34, 125>>

create_channel_info(channel) == JsonOpen \o JsonEscape(channel) \o JsonClose

\* str.encode('utf-8') of one code point below 0x10000; a surrogate raises
IsSurrogate(c) == c >= 55296 /\ c <= 57343
Utf8Char(c) ==
  IF c < 128 THEN <<c>>
  ELSE IF c < 2048 THEN <<192 + (c \div 64), 128 + (c % 64)>>
  ELSE <<224 + (c \div 4096), 128 + ((c \div 64) % 64), 128 + (c % 64)>>

RECURSIVE Utf8Encode(_)
Utf8Encode(s) ==
  IF s = << >> THEN << >> ELSE Utf8Char(Head(s)) \o Utf8Encode(Tail(s))

Utf8Encodable(s) == \A i \in 1..Len(s) : ~IsSurrogate(s[i])

\* bytes.decode('utf-8'): chars is the text with every undecodable byte
\* dropped (errors='ignore'), strict tells whether there was none
IsCont(b, i) == i <= Len(b) /\ b[i] >= 128 /\ b[i] < 192
RECURSIVE Utf8Decode(_, _)
Utf8Decode(b, i) ==
  IF i > Len(b) THEN [strict |-> TRUE, chars |-> << >>]
  ELSE IF b[i] < 128
    THEN LET r == Utf8Decode(b, i + 1)
         IN  [strict |-> r.strict, chars |-> <<b[i]>> \o r.chars]
  ELSE IF b[i] >= 194 /\ b[i] < 224 /\ IsCont(b, i + 1)
    THEN LET r == Utf8Decode(b, i + 2)
         IN  [strict |-> r.strict,
              chars |-> <<(b[i] - 192) * 64 + (b[i + 1] - 128)>> \o r.chars]
  ELSE IF /\ b[i] >= 224 /\ b[i] < 240 /\ IsCont(b, i + 1) /\ IsCont(b, i + 2)
          /\ (b[i] - 224) * 4096 + (b[i + 1] - 128) * 64 >= 2048
          /\ ~IsSurrogate((b[i] - 224) * 4096 + (b[i + 1] - 128) * 64 + (b[i + 2] - 128))
    THEN LET r == Utf8Decode(b, i + 3)
         IN  [strict |-> r.strict,
              chars |-> <<(b[i] - 224) * 4096 + (b[i + 1] - 128) * 64 + (b[i + 2] - 128)>>
                          \o r.chars]
  ELSE [strict |-> FALSE, chars |-> Utf8Decode(b, i + 1).chars]

\* json.decoder.py_scanstring on the body of a string: the text up to the
\* closing quote, unescaped; ok = FALSE is JSONDecodeError.  rest is what
\* follows the closing quote.
JsonUnescapeChar(c) ==
  CASE c = 34 -> 34 [] c = 92 -> 92 [] c = 47 -> 47 [] c = 110 -> 10
    [] c = 114 -> 13 [] c = 116 -> 9 [] c = 98 -> 8 [] c = 102 -> 12
    [] OTHER -> -1
HexValue(c) ==
  IF c >= 48 /\ c <= 57 THEN c - 48
  ELSE IF c >= 97 /\ c <= 102 THEN c - 87
  ELSE IF c >= 65 /\ c <= 70 THEN c - 55
  ELSE -1
RECURSIVE JsonScanString(_, _)
JsonScanString(s, i) ==
  LET bad == [ok |-> FALSE, chars |-> << >>, rest |-> << >>]
  IN
  IF i > Len(s) THEN bad
  ELSE IF s[i] = 34 THEN [ok |-> TRUE, chars |-> << >>, rest |-> SubSeq(s, i + 1, Len(s))]
  ELSE IF s[i] < 32 THEN bad
  ELSE IF s[i] # 92
    THEN LET r == JsonScanString(s, i + 1)
         IN  [ok |-> r.ok, chars |-> <<s[i]>> \o r.chars, rest |-> r.rest]
  ELSE IF i + 1 > Len(s) THEN bad
  ELSE IF s[i + 1] = 117
    THEN IF i + 5 > Len(s) \/ \E k \in 2..5 : HexValue(s[i + k]) < 0 THEN bad
         ELSE LET r == JsonScanString(s, i + 6)
                  c == 4096 * HexValue(s[i + 2]) + 256 * HexValue(s[i + 3])
                         + 16 * HexValue(s[i + 4]) + HexValue(s[i + 5])
              IN  [ok |-> r.ok, chars |-> <<c>> \o r.chars, rest |-> r.rest]
  ELSE IF JsonUnescapeChar(s[i + 1]) < 0 THEN bad
  ELSE LET r == JsonScanString(s, i + 2)
       IN  [ok |-> r.ok, chars |-> <<JsonUnescapeChar(s[i + 1])>> \o r.chars,
            rest |-> r.rest]

\* parse_channel_info followed by channel_info.get('channel', None).  The
\* JSON texts of the model are the objects create_channel_info writes; any
\* other text of the model is no JSON at all and takes the except branch.
None == [some |-> FALSE, value |-> << >>]
Some(v) == [some |-> TRUE, value |-> v]

parse_channel_info(channel_value) ==
  LET decoded == Utf8Decode(channel_value, 1)
      text == decoded.chars
      body == JsonScanString(text, Len(JsonOpen) + 1)
  IN  IF /\ decoded.strict
         /\ SubSeq(text, 1, Min(Len(JsonOpen), Len(text))) = JsonOpen
         /\ body.ok
         /\ body.rest = <<125>>
        THEN Some(body.chars)
        ELSE Some(text)

(***************************************************************************)
(* Files.  A path holds no file or a file's bytes.                         *)
(***************************************************************************)
Paths == {"src", "dst"}
Absent == [exists |-> FALSE, data |-> << >>]
File(bytes) == [exists |-> TRUE, data |-> bytes]

\* f.seek(pos); f.write(bytes) on a file opened 'r+b': a gap is zero-filled
FileWrite(data, pos, bytes) ==
  Slice(data, 0, pos) \o Zeros(pos - Len(data)) \o bytes
    \o Slice(data, pos + Len(bytes), Len(data))

\* a truncate() that is left out
FileTruncate_Omitted(data, pos) == data \o Zeros(pos - Len(data))

\* f.truncate() at position pos
FileTruncate(data, pos) == Slice(data, 0, pos) \o Zeros(pos - Len(data))

(***************************************************************************)
(* inject_channel.  The outcome records what the try block computed before *)
(* it returned or raised: stage is "done" for return True, and otherwise   *)
(* the step whose exception the except clause turned into return False.    *)
(***************************************************************************)
NoTrace ==
  [comment_length |-> 0, central_dir_offset |-> 0, apk_signing_block_offset |-> 0,
   apk_signing_block |-> << >>, id_values |-> << >>, new_apk_signing_block |-> << >>]

Outcome(result, stage, err, fs, trace) ==
  [result |-> result, stage |-> stage, err |-> err, files |-> fs, trace |-> trace]

\* an except clause that removes the target it could not finish
Failed_RemovesTarget(stage, err, fs, target_apk, trace) ==
  Outcome(FALSE, stage, err, [fs EXCEPT ![target_apk] = Absent], trace)

\* lines 287-291: the except clause logs the exception and returns False; the
\* files stay as the try block left them
Failed(stage, err, fs, target_apk, trace) == Outcome(FALSE, stage, err, fs, trace)

\* step 10, lines 263-275: the container and the preserved tail are written
\* at the old container's offset and the file is cut behind them
WriteContainer(data, central_dir_offset, apk_signing_block_offset, new_apk_signing_block) ==
  LET central_dir_data == Slice(data, central_dir_offset, Len(data))
      written == FileWrite(FileWrite(data, apk_signing_block_offset, new_apk_signing_block),
                           apk_signing_block_offset + Len(new_apk_signing_block),
                           central_dir_data)
  IN  FileTruncate(written, apk_signing_block_offset + Len(new_apk_signing_block)
                              + Len(central_dir_data))

\* lines 281-283: f.seek(0, 2); f.seek(f.tell() - comment_length - 6); f.write(...)
PatchPosition(data, comment_length) == Len(data) - comment_length - 6
PatchOffset(data, comment_length, new_central_dir_offset) ==
  FileWrite(data, PatchPosition(data, comment_length), pack(new_central_dir_offset, 4))

\* a gate that lets every container through
GatePasses_Always(id_values) == TRUE

\* line 240: the gate on the Reserved Signature Entry
GatePasses(id_values) == DictHas(id_values, APK_SIGNATURE_SCHEME_V2_BLOCK_ID)

\* line 278
NewCentralDirOffset(apk_signing_block_offset, new_apk_signing_block) ==
  apk_signing_block_offset + Len(new_apk_signing_block)

\* steps 6-10, once the Reserved Signature Entry has been found
InjectWrite(fs, target_apk, channel, comment_length, central_dir_offset, found, id_values) ==
  LET data == fs[target_apk].data
      trace0 == [comment_length |-> comment_length,
                 central_dir_offset |-> central_dir_offset,
                 apk_signing_block_offset |-> found.value,
                 apk_signing_block |-> found.block,
                 id_values |-> id_values,
                 new_apk_signing_block |-> << >>]
      need_padding == DictHas(id_values, VERITY_PADDING_BLOCK_ID)
      kept == IF need_padding THEN DictDel(id_values, VERITY_PADDING_BLOCK_ID) ELSE id_values
      channel_json == create_channel_info(channel)
      channel_bytes == Utf8Encode(channel_json)
      new_apk_signing_block ==
        _create_apk_signing_block(DictSet(kept, WALLE_CHANNEL_BLOCK_ID, channel_bytes))
      trace == [trace0 EXCEPT !.new_apk_signing_block = new_apk_signing_block]
      written == WriteContainer(data, central_dir_offset, found.value, new_apk_signing_block)
      new_central_dir_offset == NewCentralDirOffset(found.value, new_apk_signing_block)
  IN
  IF ~Utf8Encodable(channel_json)
    THEN Failed("encode", "UnicodeEncodeError", fs, target_apk, trace0)
  ELSE IF PatchPosition(written, comment_length) < 0
    THEN Failed("write", "OSError",
                [fs EXCEPT ![target_apk] = File(written)], target_apk, trace)
  ELSE IF ~fits32(new_central_dir_offset)
    THEN Failed("write", "struct.error",
                [fs EXCEPT ![target_apk] = File(written)], target_apk, trace)
  ELSE Outcome(TRUE, "done", "none",
               [fs EXCEPT ![target_apk] =
                  File(PatchOffset(written, comment_length, new_central_dir_offset))],
               trace)

\* steps 1-5 on the target, after the copy
InjectLocate(fs, target_apk, channel) ==
  IF ~fs[target_apk].exists
    THEN Failed("open", "FileNotFoundError", fs, target_apk, NoTrace)
  ELSE
    LET data == fs[target_apk].data
        comment == _get_comment_length(data)
        central_dir_offset == _find_central_dir_start_offset(data, comment.value)
        found == _find_apk_signing_block(data, central_dir_offset)
        id_values == _find_id_values(found.block)
    IN
    IF ~comment.ok
      THEN Failed("eocd", comment.err, fs, target_apk, NoTrace)
    ELSE IF ~found.ok
      THEN Failed("locate", found.err, fs, target_apk,
                  [NoTrace EXCEPT !.comment_length = comment.value,
                                   !.central_dir_offset = central_dir_offset])
    ELSE IF ~GatePasses(id_values)
      THEN Failed("gate", "SignatureNotFound:v2", fs, target_apk,
                  [NoTrace EXCEPT !.comment_length = comment.value,
                                   !.central_dir_offset = central_dir_offset,
                                   !.apk_signing_block_offset = found.value,
                                   !.apk_signing_block = found.block,
                                   !.id_values = id_values])
    ELSE InjectWrite(fs, target_apk, channel, comment.value, central_dir_offset,
                     found, id_values)

\* lines 219-221: shutil.copy2 when the paths differ
CopySource(fs, source_apk, target_apk) ==
  IF source_apk # target_apk THEN [fs EXCEPT ![target_apk] = fs[source_apk]] ELSE fs

\* a path shutil.copy2 can create a file at: its directory exists.  The one
\* path below is a package name made from a channel id with a "/" in it
Creatable(path) == path # "channels/app_x/y.apk"

inject_channel(fs, source_apk, target_apk, channel) ==
  IF source_apk # target_apk /\ (~fs[source_apk].exists \/ ~Creatable(target_apk))
    THEN Failed("copy", "FileNotFoundError", fs, target_apk, NoTrace)
    ELSE InjectLocate(CopySource(fs, source_apk, target_apk), target_apk, channel)

(***************************************************************************)
(* The files after get_channel: its helpers open the path with mode 'rb'   *)
(* (lines 42, 71, 92), which reads only and raises for a missing file      *)
(* without creating it.                                                    *)
(***************************************************************************)
\* an open that creates the file it does not find and empties the one it finds
OpenRb_Truncating(fs, apk_path) == [fs EXCEPT ![apk_path] = File(<< >>)]

OpenRb(fs, apk_path) == fs

(***************************************************************************)
(* get_channel.  result is what the caller gets; raised tells whether it   *)
(* came from the except clause, which the caller cannot see.               *)
(***************************************************************************)
Got(result, raised, err) == [result |-> result, raised |-> raised, err |-> err]

get_channel(fs, apk_path) ==
  IF ~fs[apk_path].exists THEN Got(None, TRUE, "FileNotFoundError")
  ELSE
    LET data == fs[apk_path].data
        comment == _get_comment_length(data)
        central_dir_offset == _find_central_dir_start_offset(data, comment.value)
        found == _find_apk_signing_block(data, central_dir_offset)
        id_values == _find_id_values(found.block)
    IN
    IF ~comment.ok THEN Got(None, TRUE, comment.err)
    ELSE IF ~found.ok THEN Got(None, TRUE, found.err)
    ELSE IF DictHas(id_values, WALLE_CHANNEL_BLOCK_ID)
      THEN Got(parse_channel_info(DictGet(id_values, WALLE_CHANNEL_BLOCK_ID)), FALSE, "none")
    ELSE Got(None, FALSE, "none")

(***************************************************************************)
(* The archives a behaviour starts from.  Each is built byte by byte from  *)
(* its layout, independently of the encoder above.                         *)
(***************************************************************************)
\* bytes of the Optional Padding Entry's value
PaddingLen == 20

Fill(n, base) == [i \in 1..n |-> (base + i) % 256]

\* 0xf05368c0, the id of another signer's entry (signature scheme v3)
OTHER_BLOCK_ID == <<192, 104, 83, 240>>

SigEntry == [id |-> APK_SIGNATURE_SCHEME_V2_BLOCK_ID, value |-> Fill(SigLen, 10)]
Sig2Entry == [id |-> APK_SIGNATURE_SCHEME_V2_BLOCK_ID, value |-> Fill(SigLen, 50)]
PadEntry == [id |-> VERITY_PADDING_BLOCK_ID, value |-> Zeros(PaddingLen)]
\* a padding entry that is longer than any channel entry of the model
BigPadEntry == [id |-> VERITY_PADDING_BLOCK_ID, value |-> Zeros(2 * PaddingLen)]
OtherEntry == [id |-> OTHER_BLOCK_ID, value |-> <<7>>]
\* a channel entry another run left behind: {"channel": "old"}
OldChannelEntry ==
  [id |-> WALLE_CHANNEL_BLOCK_ID, value |-> JsonOpen \o <<111, 108, 100>> \o JsonClose]

EntryLists ==
  [sig       |-> <<SigEntry>>,
   sig_pad   |-> <<SigEntry, PadEntry>>,
   sig_bigpad |-> <<SigEntry, BigPadEntry>>,
   other_sig_chan |-> <<OtherEntry, SigEntry, OldChannelEntry>>,
   chan_sig  |-> <<OldChannelEntry, SigEntry>>,
   sig_sig   |-> <<SigEntry, Sig2Entry>>,
   other     |-> <<OtherEntry>>,
   none      |-> << >>]

HasId(name, id) == \E i \in 1..Len(EntryLists[name]) : EntryLists[name][i].id = id

RECURSIVE EntryBytes(_)
EntryBytes(entries) ==
  IF entries = << >> THEN << >>
  ELSE pack(4 + Len(Head(entries).value), 8) \o Head(entries).id \o Head(entries).value
         \o EntryBytes(Tail(entries))

\* a container whose two size fields are given
ContainerBytes(entries, header_size, footer_size) ==
  header_size \o EntryBytes(entries) \o footer_size
    \o APK_SIG_BLOCK_MAGIC_LO \o APK_SIG_BLOCK_MAGIC_HI

Container(entries) ==
  LET n == pack(Len(EntryBytes(entries)) + 24, 8)
  IN  ContainerBytes(entries, n, n)

\* an EOCD record: signature, 12 bytes the injector never reads (disk numbers,
\* entry counts, central-directory size), offset, comment length, comment
EocdRecord(signature, central_dir_offset, comment_length, comment) ==
  signature \o <<0, 0, 0, 0, 1, 0, 1, 0>> \o pack(CdLen, 4)
    \o pack(central_dir_offset, 4) \o pack(comment_length, 2) \o comment

Prefix == Fill(PrefixLen, 200)
CentralDir == Fill(CdLen, 100)
Comments == {<< >>, <<33, 34>>}

\* content, container, central directory, EOCD, comment
Standard(entries, comment) ==
  LET c == Container(entries)
  IN  Prefix \o c \o CentralDir
        \o EocdRecord(EOCD_SIGNATURE, PrefixLen + Len(c), Len(comment), comment)

\* a hostile file: the EOCD's offset field points behind a container that
\* sits inside the ZIP comment
InComment(entries) ==
  LET c == Container(entries)
      comment == c \o <<9, 9>>
  IN  Prefix \o CentralDir
        \o EocdRecord(EOCD_SIGNATURE, PrefixLen + CdLen + EOCD_MIN_SIZE + Len(c),
                      Len(comment), comment)

\* a file in the conventional layout whose EOCD record is followed by a
\* 13-byte comment of zeros and whose unread central-directory size field ends
\* in 50 4b 05: once the offset field's first byte is 06 (an offset of 262),
\* the four bytes at EOCD + 13 read as an EOCD signature, and the two zero
\* bytes that end the file as that record's comment length
StraddlePrefixLen ==
  262 - (Len(Container(<<SigEntry>>)) + 12 + Len(JsonOpen) + 1 + Len(JsonClose))

Straddle ==
  LET c == Container(<<SigEntry>>)
  IN  Fill(StraddlePrefixLen, 200) \o c \o CentralDir
        \o EOCD_SIGNATURE \o <<0, 0, 0, 0, 1, 0, 1, 0>> \o <<CdLen, 80, 75, 5>>
        \o pack(StraddlePrefixLen + Len(c), 4) \o pack(13, 2) \o Zeros(13)

\* malformed files
Defects ==
  {"no_eocd", "comment_length", "short", "cd_small", "cd_beyond", "magic",
   "size_mismatch", "footer_huge"}

Defective(d) ==
  LET e == <<SigEntry>>
      c == Container(e)
      n == pack(Len(EntryBytes(e)) + 24, 8)
      cd == PrefixLen + Len(c)
  IN
  CASE d = "no_eocd" ->
         Prefix \o c \o CentralDir \o EocdRecord(<<80, 75, 1, 2>>, cd, 0, << >>)
    [] d = "comment_length" ->
         Prefix \o c \o CentralDir \o EocdRecord(EOCD_SIGNATURE, cd, 5, <<33, 34>>)
    [] d = "short" -> SubSeq(EocdRecord(EOCD_SIGNATURE, 0, 0, << >>), 1, 21)
    [] d = "cd_small" -> CentralDir \o EocdRecord(EOCD_SIGNATURE, 0, 0, << >>)
    [] d = "cd_beyond" ->
         Prefix \o c \o CentralDir \o EocdRecord(EOCD_SIGNATURE, cd + 1000, 0, << >>)
    [] d = "magic" ->
         Prefix \o Fill(40, 0) \o CentralDir
           \o EocdRecord(EOCD_SIGNATURE, PrefixLen + 40, 0, << >>)
    [] d = "size_mismatch" ->
         Prefix \o ContainerBytes(e, pack(Len(EntryBytes(e)) + 25, 8), n) \o CentralDir
           \o EocdRecord(EOCD_SIGNATURE, cd, 0, << >>)
    [] d = "footer_huge" ->
         Prefix \o ContainerBytes(e, n, <<0, 0, 0, 0, 0, 1, 0, 0>>) \o CentralDir
           \o EocdRecord(EOCD_SIGNATURE, cd, 0, << >>)

Origins ==
  [layout : {"standard"}, entries : DOMAIN EntryLists, comment : Comments, defect : {"none"}]
  \cup [layout : {"in_comment"}, entries : {"sig", "sig_pad", "chan_sig"},
        comment : {<< >>}, defect : {"none"}]
  \cup [layout : {"straddle"}, entries : {"sig"}, comment : {Zeros(13)}, defect : {"none"}]
  \cup [layout : {"defective"}, entries : {"sig"}, comment : {<< >>}, defect : Defects]

Archive(o) ==
  CASE o.layout = "standard" -> Standard(EntryLists[o.entries], o.comment)
    [] o.layout = "in_comment" -> InComment(EntryLists[o.entries])
    [] o.layout = "straddle" -> Straddle
    [] o.layout = "defective" -> Defective(o.defect)

\* the channel values of the calls: "a", "\"e-acute" (escaped, two-byte UTF-8),
\* the empty string, and a lone surrogate, which UTF-8 cannot encode
Channels == {<<97>>, <<34, 233>>, << >>, <<55296>>}

(***************************************************************************)
(* The state machine: a caller that injects from the signed source into    *)
(* the destination, re-injects into the destination in place, and reads    *)
(* either file.                                                            *)
(***************************************************************************)
VARIABLES
  files,    \* path -> file
  hist,     \* the calls made so far, each with its arguments and outcome
  origin    \* how the source archive was built (never changes)

vars == <<files, hist, origin>>

Init ==
  /\ origin \in Origins
  /\ files = [p \in Paths |-> IF p = "src" THEN File(Archive(origin)) ELSE Absent]
  /\ hist = << >>

InjectCall(source_apk, target_apk, channel) ==
  LET out == inject_channel(files, source_apk, target_apk, channel)
  IN  /\ Len(hist) < MaxOps
      /\ files' = out.files
      /\ hist' = Append(hist,
                   [op |-> "inject", source |-> source_apk, target |-> target_apk,
                    channel |-> channel, before |-> files,
                    result |-> out.result, stage |-> out.stage, err |-> out.err,
                    trace |-> out.trace, got |-> None, raised |-> FALSE])
      /\ UNCHANGED origin

\* inject_channel(source, destination, channel)
Inject == \E channel \in Channels : InjectCall("src", "dst", channel)

\* inject_channel(destination, destination, channel)
Reinject == \E channel \in Channels : InjectCall("dst", "dst", channel)

\* get_channel(path)
Read ==
  \E apk_path \in Paths :
    LET got == get_channel(files, apk_path)
    IN  /\ Len(hist) < MaxOps
        /\ hist' = Append(hist,
                     [op |-> "get", source |-> apk_path, target |-> apk_path,
                      channel |-> << >>, before |-> files,
                      result |-> ~got.raised, stage |-> "none", err |-> got.err,
                      trace |-> NoTrace, got |-> got.result, raised |-> got.raised])
        /\ files' = OpenRb(files, apk_path)
        /\ UNCHANGED origin

Next == Inject \/ Reinject \/ Read

Spec == Init /\ [][Next]_vars

(***************************************************************************)
(* Vocabulary of the properties.                                           *)
(***************************************************************************)
Called == Len(hist) > 0
Last == hist[Len(hist)]

\* the files as call i left them
After(i) == IF i = Len(hist) THEN files ELSE hist[i + 1].before

\* the bytes call r started from, and the bytes its target held before it
SourceData(r) == r.before[r.source].data

InjectedOk == Called /\ Last.op = "inject" /\ Last.result

\* where the preserved central-directory bytes start after a successful call r
NewCdStart(r) == r.trace.apk_signing_block_offset + Len(r.trace.new_apk_signing_block)

\* the container of a file as the locators find it and the decoder reads it
Decoded(data) ==
  LET comment == _get_comment_length(data)
      found == _find_apk_signing_block(
                 data, _find_central_dir_start_offset(data, comment.value))
  IN  IF comment.ok /\ found.ok
        THEN [ok |-> TRUE, id_values |-> _find_id_values(found.block)]
        ELSE [ok |-> FALSE, id_values |-> << >>]

DecodedValue(data, id) ==
  IF Decoded(data).ok /\ DictHas(Decoded(data).id_values, id)
    THEN Some(DictGet(Decoded(data).id_values, id))
    ELSE None

\* the pairs of a well-formed container, read one after the other
RECURSIVE PairsOf(_, _)
PairsOf(block, pos) ==
  IF pos + 12 > Len(block) - 24 THEN << >>
  ELSE LET n == unpack(Slice(block, pos, pos + 8))
       IN  <<[id |-> Slice(block, pos + 8, pos + 12),
              value |-> Slice(block, pos + 12, pos + 8 + n)]>>
             \o (IF n < 4 THEN << >> ELSE PairsOf(block, pos + 8 + n))

\* header size = footer size = length - 8, and both magic words
WellFormedContainer(block) ==
  /\ Len(block) >= 32
  /\ unpack(Slice(block, 0, 8)) = Len(block) - 8
  /\ unpack(Slice(block, Len(block) - 24, Len(block) - 16)) = Len(block) - 8
  /\ Slice(block, Len(block) - 16, Len(block) - 8) = APK_SIG_BLOCK_MAGIC_LO
  /\ Slice(block, Len(block) - 8, Len(block)) = APK_SIG_BLOCK_MAGIC_HI

(***************************************************************************)
(* C1.  Round trip: after inject_channel(src, dst, V) returns True,        *)
(* get_channel(dst) returns V.                                             *)
(***************************************************************************)
C1_RoundTrip ==
  InjectedOk => get_channel(files, Last.target).result = Some(Last.channel)

(***************************************************************************)
(* C2.  Overwrite: when V1 has been injected into the destination and V2   *)
(* is then injected in place (source path = destination path), the second  *)
(* call succeeds too, get_channel returns V2, the destination's container  *)
(* holds exactly one channel entry, whose value is the encoding of V2, and *)
(* the destination is byte for byte what injecting V2 alone gives.         *)
(***************************************************************************)
ChannelPairs(data) ==
  LET comment == _get_comment_length(data)
      found == _find_apk_signing_block(
                 data, _find_central_dir_start_offset(data, comment.value))
  IN  IF comment.ok /\ found.ok
        THEN SelectSeq(PairsOf(found.block, 8), LAMBDA e : e.id = WALLE_CHANNEL_BLOCK_ID)
        ELSE << >>

C2_Overwrite ==
  \A i \in 1..(Len(hist) - 1) :
    LET first == hist[i]
        second == hist[i + 1]
        dst == After(i + 1)[second.target]
    IN  ( /\ first.op = "inject" /\ first.result /\ first.source # first.target
          /\ second.op = "inject" /\ second.source = first.target
          /\ second.target = first.target
          /\ Utf8Encodable(second.channel) )
        => /\ second.result
           /\ get_channel(After(i + 1), second.target).result = Some(second.channel)
           /\ ChannelPairs(dst.data)
                = <<[id |-> WALLE_CHANNEL_BLOCK_ID,
                     value |-> Utf8Encode(create_channel_info(second.channel))]>>
           /\ dst = inject_channel(first.before, first.source, first.target,
                                   second.channel).files[first.target]

(***************************************************************************)
(* C3.  Structural validity: after every successful inject_channel the     *)
(* EOCD of the destination is located with the comment length found before *)
(* the call, its offset field holds the position where the preserved       *)
(* central-directory bytes start, and the signing container ends exactly   *)
(* there, with equal header and footer sizes (its length - 8) and both     *)
(* magic words.                                                            *)
(***************************************************************************)
C3_StructurallyValid ==
  InjectedOk =>
    LET d == files[Last.target].data
        t == Last.trace
        comment == _get_comment_length(d)
    IN  /\ comment.ok
        /\ comment.value = t.comment_length
        /\ _find_central_dir_start_offset(d, comment.value) = NewCdStart(Last)
        /\ WellFormedContainer(Slice(d, t.apk_signing_block_offset, NewCdStart(Last)))
        /\ Slice(d, t.apk_signing_block_offset, NewCdStart(Last)) = t.new_apk_signing_block

(***************************************************************************)
(* C4.  Size accounting: after a successful inject_channel the destination *)
(* is as long as the source, less the old container, plus the new one, and *)
(* the 4 bytes at (new size - comment length - 6) hold the old container's *)
(* offset plus the new container's length.                                 *)
(***************************************************************************)
C4_SizeAccounting ==
  InjectedOk =>
    LET d == files[Last.target].data
        t == Last.trace
    IN  /\ Len(d) = Len(SourceData(Last)) - Len(t.apk_signing_block)
                      + Len(t.new_apk_signing_block)
        /\ unpack(Slice(d, Len(d) - t.comment_length - 6, Len(d) - t.comment_length - 2))
             = t.apk_signing_block_offset + Len(t.new_apk_signing_block)

\* a successful injection that made the container shorter, and one that made it longer
C4_Witness ==
  /\ Len(hist) = 2
  /\ hist[1].op = "inject" /\ hist[1].result
  /\ Len(hist[1].trace.new_apk_signing_block) > Len(hist[1].trace.apk_signing_block)
  /\ InjectedOk
  /\ Len(Last.trace.new_apk_signing_block) < Len(Last.trace.apk_signing_block)

(***************************************************************************)
(* C5.  The Reserved Signature Entry survives: after a successful          *)
(* inject_channel, decoding the destination's container gives, under id    *)
(* 0x7109871a, the value that decoding the source's container gives.       *)
(***************************************************************************)
C5_SignatureSurvives ==
  InjectedOk =>
    /\ DecodedValue(files[Last.target].data, APK_SIGNATURE_SCHEME_V2_BLOCK_ID).some
    /\ DecodedValue(files[Last.target].data, APK_SIGNATURE_SCHEME_V2_BLOCK_ID)
         = DecodedValue(SourceData(Last), APK_SIGNATURE_SCHEME_V2_BLOCK_ID)

(***************************************************************************)
(* C6.  Frame: a successful inject_channel leaves every byte before the    *)
(* old container's offset as it was, and the bytes from the old            *)
(* central-directory offset to the end of the file follow the new          *)
(* container unchanged, but for the 4 bytes of the EOCD's offset field.    *)
(***************************************************************************)
C6_Frame ==
  InjectedOk =>
    LET b == SourceData(Last)
        d == files[Last.target].data
        t == Last.trace
        old_tail == Slice(b, t.central_dir_offset, Len(b))
        new_tail == Slice(d, NewCdStart(Last), Len(d))
        field == Len(old_tail) - t.comment_length - 6
    IN  /\ Slice(d, 0, t.apk_signing_block_offset) = Slice(b, 0, t.apk_signing_block_offset)
        /\ Len(new_tail) = Len(old_tail)
        /\ \A i \in 1..Len(old_tail) :
             (i - 1 < field \/ i - 1 > field + 3) => new_tail[i] = old_tail[i]

(***************************************************************************)
(* C7.  Gate: inject_channel on a file whose decoded container has no      *)
(* Reserved Signature Entry returns False; and whenever the EOCD scan, the *)
(* container locator or the gate fails, the target holds the source's      *)
(* bytes (its own bytes from before the call when the two paths are the    *)
(* same) and the source is as it was.                                      *)
(***************************************************************************)
C7_Gate ==
  (Called /\ Last.op = "inject") =>
    /\ ( /\ Last.before[Last.source].exists
         /\ Decoded(SourceData(Last)).ok
         /\ ~DictHas(Decoded(SourceData(Last)).id_values, APK_SIGNATURE_SCHEME_V2_BLOCK_ID) )
       => (~Last.result /\ Last.stage = "gate")
    /\ (~Last.result /\ Last.stage \in {"eocd", "locate", "gate"})
       => /\ files[Last.target] = Last.before[Last.source]
          /\ files[Last.source] = Last.before[Last.source]

\* a copy into the destination stopped by the gate, and then one in place
C7_Witness ==
  /\ Len(hist) = 2
  /\ hist[1].op = "inject" /\ hist[1].stage = "gate" /\ hist[1].source # hist[1].target
  /\ Last.op = "inject" /\ Last.stage = "gate" /\ Last.source = Last.target
  /\ ~HasId(origin.entries, APK_SIGNATURE_SCHEME_V2_BLOCK_ID)
  /\ files["dst"] = files["src"]

(***************************************************************************)
(* C8.  Gate enforcement (as stated): when inject_channel fails because    *)
(* the archive lacks the Reserved Signature Entry, no usable artifact is   *)
(* left at the destination path: there is no file, or none in which an     *)
(* EOCD record and a signing container can be found.                       *)
(***************************************************************************)
Usable(f) == f.exists /\ Decoded(f.data).ok

GateFailed == Called /\ Last.op = "inject" /\ Last.stage = "gate"

C8_NoUsableArtifact ==
  GateFailed => (~Last.result /\ ~Usable(files[Last.target]))

(***************************************************************************)
(* C8, amended.  When inject_channel fails because the archive lacks the   *)
(* Reserved Signature Entry it returns False, and the destination path     *)
(* holds a byte-identical copy of the source, in which the EOCD record and *)
(* the signing container are found as in the source.                       *)
(***************************************************************************)
C8_GateLeavesCopy ==
  GateFailed =>
    /\ ~Last.result
    /\ files[Last.target].exists
    /\ files[Last.target].data = SourceData(Last)
    /\ Usable(files[Last.target])
    /\ get_channel(files, Last.target) = get_channel(Last.before, Last.source)

\* the gate has stopped a copy of an archive with another signer's entry only
C8_Witness ==
  /\ GateFailed
  /\ Last.source = "src" /\ Last.target = "dst"
  /\ origin.entries = "other"
  /\ ~Last.before["dst"].exists
  /\ files["dst"].exists

(***************************************************************************)
(* C9.  Absence is not an error: get_channel on a well-formed signed       *)
(* archive whose container has no channel entry returns None and raises    *)
(* nothing.                                                                *)
(***************************************************************************)
\* the file call r read is the source archive as built, in the conventional
\* layout, signed, and without a channel entry
ReadsPlainSigned(r) ==
  /\ r.op = "get"
  /\ origin.layout = "standard"
  /\ HasId(origin.entries, APK_SIGNATURE_SCHEME_V2_BLOCK_ID)
  /\ ~HasId(origin.entries, WALLE_CHANNEL_BLOCK_ID)
  /\ r.before[r.source] = File(Archive(origin))

C9_AbsentIsNone ==
  (Called /\ ReadsPlainSigned(Last)) => (Last.got = None /\ ~Last.raised)

C9_Witness ==
  /\ Called /\ ReadsPlainSigned(Last)
  /\ origin.entries = "sig_pad" /\ origin.comment # << >>
  /\ Last.got = None

(***************************************************************************)
(* C10.  Errors are reported: get_channel on a malformed archive (no EOCD  *)
(* record, no or an invalid signing container, unequal header and footer   *)
(* sizes) gives the caller an outcome that differs from None, the outcome  *)
(* for a well-formed archive without a channel entry.                      *)
(***************************************************************************)
C10_ErrorsDistinguishable ==
  (Called /\ Last.op = "get" /\ Last.before[Last.source].exists /\ Last.raised)
    => Last.got # None

(***************************************************************************)
(* The locators and the pair codec on their own.  A second specification   *)
(* runs the steps 1-4 of get_channel and inject_channel (lines 224-236,    *)
(* 303-312) and the encoder of step 9 one after the other on one file, and *)
(* records what each returned.  Its files cover the shapes the locators    *)
(* and the decoder tell apart.                                             *)
(***************************************************************************)
\* a record laid out like an EOCD record inside a ZIP comment: the signature,
\* 16 bytes, a comment length, and the bytes that follow it in the comment
InnerRecord(comment_length, rest) ==
  EOCD_SIGNATURE \o Zeros(16) \o pack(comment_length, 2) \o rest

\* ZIP comments: plain ones, ones that hold the 4 signature bytes, and ones
\* that hold a whole 22-byte record whose length field does or does not give
\* the number of bytes behind it
ScanComments ==
  { << >>, <<33, 34>>,
    EOCD_SIGNATURE,
    <<33>> \o EOCD_SIGNATURE \o <<34>>,
    InnerRecord(1, << >>),
    InnerRecord(0, <<1, 2>>),
    InnerRecord(0, << >>),
    InnerRecord(2, <<1, 2>>),
    <<33>> \o InnerRecord(0, << >>) }

\* the first size bytes of a file; a negative size keeps the whole file
Whole == 0 - 1
ShortSizes == {Whole, 0, 21}

\* files for the EOCD scan: pre bytes, a record with a right or a wrong
\* signature, a comment length field that is right or off by slip, a comment
ScanOrigins ==
  [family : {"scan"}, pre : 0..PrefixLen, signature : {EOCD_SIGNATURE, <<80, 75, 1, 2>>},
   slip : {0, 1}, comment : ScanComments, size : ShortSizes]

ScanFile(o) ==
  LET whole == Fill(o.pre, 200)
                 \o EocdRecord(o.signature, 0, Len(o.comment) + o.slip, o.comment)
  IN  IF o.size < 0 THEN whole ELSE SubSeq(whole, 1, Min(o.size, Len(whole)))

\* the positions the for loop of _get_comment_length seeks to (line 50-51)
ScanPositions(file) ==
  LET max_comment_length == Min(Len(file) - EOCD_MIN_SIZE, MAX_COMMENT)
      found == _get_comment_length(file)
      last == IF found.ok THEN found.value ELSE max_comment_length
  IN  {Len(file) - EOCD_MIN_SIZE - expected_comment_length :
         expected_comment_length \in 0..last}

\* files for the container locator, by what sets them apart
LocateCases ==
  {"footer_only", "cd_31", "at_start", "magic_lo", "magic_hi", "offset_minus_1", "cd_past_end"}

LocateFile(case) ==
  LET e == <<SigEntry>>
      c == Container(e)
      n == pack(Len(EntryBytes(e)) + 24, 8)
      cd == PrefixLen + Len(c)
      footer_only == pack(16, 8) \o APK_SIG_BLOCK_MAGIC_LO \o APK_SIG_BLOCK_MAGIC_HI
  IN
  CASE case = "footer_only" ->
         \* a footer whose size field says 16: the 24 bytes in front of the
         \* central directory are header and footer at once
         Fill(8, 200) \o footer_only \o CentralDir \o EocdRecord(EOCD_SIGNATURE, 32, 0, << >>)
    [] case = "cd_31" ->
         Fill(7, 200) \o footer_only \o CentralDir \o EocdRecord(EOCD_SIGNATURE, 31, 0, << >>)
    [] case = "at_start" ->
         c \o CentralDir \o EocdRecord(EOCD_SIGNATURE, Len(c), 0, << >>)
    [] case = "magic_lo" ->
         Prefix \o n \o EntryBytes(e) \o n \o <<65, 80, 75, 32, 83, 105, 103, 33>>
           \o APK_SIG_BLOCK_MAGIC_HI \o CentralDir \o EocdRecord(EOCD_SIGNATURE, cd, 0, << >>)
    [] case = "magic_hi" ->
         Prefix \o n \o EntryBytes(e) \o n \o APK_SIG_BLOCK_MAGIC_LO
           \o <<66, 108, 111, 99, 107, 32, 52, 51>> \o CentralDir
           \o EocdRecord(EOCD_SIGNATURE, cd, 0, << >>)
    [] case = "offset_minus_1" ->
         Prefix \o ContainerBytes(e, n, pack(cd - 7, 8)) \o CentralDir
           \o EocdRecord(EOCD_SIGNATURE, cd, 0, << >>)
    [] case = "cd_past_end" ->
         Prefix \o c \o EocdRecord(EOCD_SIGNATURE, cd + EOCD_MIN_SIZE + 1, 0, << >>)

\* pairs regions for the decoder: well formed, with repeated ids, and with
\* length fields that do not fit the region
NewChannelEntry ==
  [id |-> WALLE_CHANNEL_BLOCK_ID, value |-> JsonOpen \o <<110, 101, 119>> \o JsonClose]

PairLists ==
  [good       |-> <<SigEntry, OtherEntry>>,
   dup_sig    |-> <<SigEntry, Sig2Entry>>,
   dup_chan   |-> <<OldChannelEntry, SigEntry, NewChannelEntry>>,
   triple     |-> <<Sig2Entry, OtherEntry, SigEntry, OldChannelEntry, Sig2Entry>>,
   empty_value |-> <<[id |-> APK_SIGNATURE_SCHEME_V2_BLOCK_ID, value |-> << >>]>>]

CorruptCases == {"overrun", "huge", "size_0", "size_2", "stub", "late_overrun"}

CorruptPairs(case) ==
  CASE case = "overrun" ->
         pack(4 + SigLen + 10, 8) \o APK_SIGNATURE_SCHEME_V2_BLOCK_ID \o Fill(SigLen, 10)
    [] case = "huge" ->
         <<255, 255, 255, 255, 255, 255, 255, 255>> \o APK_SIGNATURE_SCHEME_V2_BLOCK_ID
           \o Fill(SigLen, 10)
    [] case = "size_0" ->
         pack(0, 8) \o APK_SIGNATURE_SCHEME_V2_BLOCK_ID \o EntryBytes(<<OtherEntry>>)
    [] case = "size_2" ->
         pack(2, 8) \o APK_SIGNATURE_SCHEME_V2_BLOCK_ID \o EntryBytes(<<OtherEntry>>)
    [] case = "stub" -> <<1, 0, 0, 0, 0>>
    [] case = "late_overrun" ->
         EntryBytes(<<SigEntry>>) \o pack(4 + 1 + 1, 8) \o OTHER_BLOCK_ID \o <<7>>

\* a container around the bytes of a pairs region
ContainerOfPairs(pairs_data) ==
  LET n == pack(Len(pairs_data) + 24, 8)
  IN  n \o pairs_data \o n \o APK_SIG_BLOCK_MAGIC_LO \o APK_SIG_BLOCK_MAGIC_HI

PairsFile(pairs_data) ==
  LET c == ContainerOfPairs(pairs_data)
  IN  Prefix \o c \o CentralDir \o EocdRecord(EOCD_SIGNATURE, PrefixLen + Len(c), 0, << >>)

CodecOrigins ==
  ScanOrigins
    \cup [family : {"locate"}, case : LocateCases]
    \cup [family : {"pairs"}, case : DOMAIN PairLists]
    \cup [family : {"corrupt"}, case : CorruptCases]
    \cup [family : {"archive"}, of : Origins]

CodecFile(o) ==
  CASE o.family = "scan" -> ScanFile(o)
    [] o.family = "locate" -> LocateFile(o.case)
    [] o.family = "pairs" -> PairsFile(EntryBytes(PairLists[o.case]))
    [] o.family = "corrupt" -> PairsFile(CorruptPairs(o.case))
    [] o.family = "archive" -> Archive(o.of)

\* the cursor of the while loop of _find_id_values: one record per pass, with
\* the position of the entry, the size it declares and the value kept
\* a loop that does not step over the 4 bytes of the id
RECURSIVE DecodeSteps_IdNotSkipped(_, _, _)
DecodeSteps_IdNotSkipped(apk_signing_block, pos, end) ==
  IF ~(pos < end) THEN << >>
  ELSE
    LET entry_size == unpack(Slice(apk_signing_block, pos, pos + 8))
        value_size == entry_size - 4
    IN  <<[pos |-> pos, entry_size |-> entry_size,
           entry_id |-> Slice(apk_signing_block, pos + 8, pos + 12),
           entry_value |-> Slice(apk_signing_block, pos + 12, pos + 12 + value_size)]>>
          \o DecodeSteps_IdNotSkipped(apk_signing_block, pos + 8 + value_size, end)

RECURSIVE DecodeSteps(_, _, _)
DecodeSteps(apk_signing_block, pos, end) ==
  IF ~(pos < end) THEN << >>
  ELSE
    LET entry_size == unpack(Slice(apk_signing_block, pos, pos + 8))
        value_size == entry_size - 4
    IN  <<[pos |-> pos, entry_size |-> entry_size,
           entry_id |-> Slice(apk_signing_block, pos + 8, pos + 12),
           entry_value |-> Slice(apk_signing_block, pos + 12, pos + 12 + value_size)]>>
          \o DecodeSteps(apk_signing_block, pos + 12 + value_size, end)

CodecInit ==
  /\ origin \in CodecOrigins
  /\ files = [p \in Paths |-> IF p = "src" THEN File(CodecFile(origin)) ELSE Absent]
  /\ hist = << >>

\* step 1: comment_length = self._get_comment_length(path)
ScanStep ==
  /\ hist = << >>
  /\ hist' = <<[op |-> "_get_comment_length",
                out |-> _get_comment_length(files["src"].data),
                positions |-> ScanPositions(files["src"].data)]>>
  /\ UNCHANGED <<files, origin>>

\* steps 2 and 3: the offset field, then the container in front of it
LocateStep ==
  /\ Len(hist) = 1 /\ hist[1].out.ok
  /\ LET data == files["src"].data
         central_dir_offset == _find_central_dir_start_offset(data, hist[1].out.value)
     IN  hist' = Append(hist, [op |-> "_find_apk_signing_block",
                               central_dir_offset |-> central_dir_offset,
                               out |-> _find_apk_signing_block(data, central_dir_offset)])
  /\ UNCHANGED <<files, origin>>

\* step 4: id_values = self._find_id_values(apk_signing_block)
DecodeStep ==
  /\ Len(hist) = 2 /\ hist[2].out.ok
  /\ hist' = Append(hist, [op |-> "_find_id_values",
                           steps |-> DecodeSteps(hist[2].out.block, 8,
                                                 Len(hist[2].out.block) - 24),
                           id_values |-> _find_id_values(hist[2].out.block)])
  /\ UNCHANGED <<files, origin>>

\* step 9 on what step 4 gave: self._create_apk_signing_block(id_values)
EncodeStep ==
  /\ Len(hist) = 3
  /\ hist' = Append(hist, [op |-> "_create_apk_signing_block",
                           block |-> _create_apk_signing_block(hist[3].id_values)])
  /\ UNCHANGED <<files, origin>>

CodecNext == ScanStep \/ LocateStep \/ DecodeStep \/ EncodeStep

CodecSpec == CodecInit /\ [][CodecNext]_vars

\* the steps taken so far
Scanned == Len(hist) >= 1
Located == Len(hist) >= 2
DecodedPairs == Len(hist) >= 3
Encoded == Len(hist) >= 4

(***************************************************************************)
(* C11.  EOCD ambiguity (as stated): for every archive whose ZIP comment   *)
(* holds the 4 bytes of the EOCD signature, at any place and among any     *)
(* other comment bytes, _get_comment_length returns the comment length of  *)
(* the real EOCD record.                                                   *)
(***************************************************************************)
ContainsSignature(comment) ==
  \E k \in 0..(Len(comment) - 4) : SubSeq(comment, k + 1, k + 4) = <<80, 75, 5, 6>>

\* the file is a whole archive with a real EOCD record in front of its comment
RealRecord ==
  /\ origin.family = "scan"
  /\ origin.signature = <<80, 75, 5, 6>>
  /\ origin.slip = 0
  /\ origin.size = Whole

C11_RealEocd ==
  (Scanned /\ RealRecord /\ ContainsSignature(origin.comment))
    => (hist[1].out.ok /\ hist[1].out.value = Len(origin.comment))

(***************************************************************************)
(* C17.  EOCD locator contract: _get_comment_length returns the smallest c *)
(* in 0..min(file size - 22, 65535) such that the 4 bytes at               *)
(* (file size - 22 - c) are 50 4b 05 06 and the u16 20 bytes further on is *)
(* c; it fails with the not-found error when there is no such c, as for    *)
(* every file shorter than 22 bytes; and every position it seeks to lies   *)
(* in the file, 22 bytes or more before its end.                           *)
(***************************************************************************)
C17_LocatorContract ==
  Scanned =>
    LET file == files["src"].data
        n == Len(file)
        out == hist[1].out
        Fits(c) == /\ SubSeq(file, n - 22 - c + 1, n - 22 - c + 4) = <<80, 75, 5, 6>>
                   /\ file[n - c - 1] + 256 * file[n - c] = c
        candidates == {c \in 0..(IF n - 22 < 65535 THEN n - 22 ELSE 65535) : Fits(c)}
    IN  /\ candidates = {} => (~out.ok /\ out.err = "SignatureNotFound:eocd")
        /\ candidates # {} => /\ out.ok
                              /\ out.value \in candidates
                              /\ \A c \in candidates : out.value <= c
        /\ n < 22 => ~out.ok
        /\ \A p \in hist[1].positions : p >= 0 /\ p + 22 <= n

\* two candidates fit, and the scan has returned the smaller one
C17_Witness ==
  /\ Scanned /\ RealRecord
  /\ origin.comment = InnerRecord(2, <<1, 2>>)
  /\ hist[1].out.ok /\ hist[1].out.value = 2
  /\ hist[1].positions = {origin.pre + 22, origin.pre + 23, origin.pre + 24}

(***************************************************************************)
(* C18.  Container locator validation (as stated): _find_apk_signing_block *)
(* fails when the central-directory offset is below 32, when a footer      *)
(* magic word is wrong, when offset - (footer size + 8) is negative, or    *)
(* when the leading size field differs from the footer's; otherwise it     *)
(* returns the bytes [offset - (footer size + 8), offset) and that start,  *)
(* and the container it returns is 32 bytes long or longer.                *)
(***************************************************************************)
\* the bytes [a, b) of the file and the little-endian number they hold; no
\* bytes and 0 - 1 where the file does not reach that far
BytesAt(file, a, b) ==
  IF a < 0 \/ b > Len(file) THEN << >> ELSE SubSeq(file, a + 1, b)

FieldAt(file, a, b) ==
  IF a < 0 \/ b > Len(file) THEN 0 - 1 ELSE unpack(SubSeq(file, a + 1, b))

C18_LocatorValidation ==
  Located =>
    LET file == files["src"].data
        cd == hist[2].central_dir_offset
        out == hist[2].out
        too_small == cd < 32
        footer_size == FieldAt(file, cd - 24, cd - 16)
        start == cd - (footer_size + 8)
        bad_magic == \/ BytesAt(file, cd - 16, cd - 8) # <<65, 80, 75, 32, 83, 105, 103, 32>>
                     \/ BytesAt(file, cd - 8, cd) # <<66, 108, 111, 99, 107, 32, 52, 50>>
        negative == start < 0
        mismatch == FieldAt(file, start, start + 8) # footer_size
    IN  IF too_small \/ bad_magic \/ negative \/ mismatch
          THEN ~out.ok
          ELSE /\ out.ok
               /\ out.value = start
               /\ out.block = SubSeq(file, start + 1, cd)
               /\ Len(out.block) >= 32

(***************************************************************************)
(* C19.  Decode bounds (as stated): an entry whose declared length takes   *)
(* the cursor past (container length - 24), or is below 4, makes decoding  *)
(* fail; so whenever _find_id_values has returned, every entry it read     *)
(* declared 4 bytes or more, ended at or before the footer, and gave a     *)
(* value of exactly (declared length - 4) bytes.                           *)
(***************************************************************************)
C19_DecodeBounds ==
  DecodedPairs =>
    LET block == hist[2].out.block
        steps == hist[3].steps
    IN  \A i \in 1..Len(steps) :
          /\ steps[i].entry_size >= 4
          /\ steps[i].pos + 8 + steps[i].entry_size <= Len(block) - 24
          /\ Len(steps[i].entry_value) = steps[i].entry_size - 4

(***************************************************************************)
(* C20.  Duplicate identifiers are last-write-wins: when a well-formed     *)
(* container holds several entries with one id, the decoded mapping has    *)
(* one entry for each id of the container, with the value of that id's     *)
(* last entry; and the container encoded from the mapping holds each id    *)
(* once, with that value.                                                  *)
(***************************************************************************)
\* the value of the last entry with this id
LastValue(entries, id) ==
  entries[CHOOSE i \in 1..Len(entries) :
            /\ entries[i].id = id
            /\ \A j \in (i + 1)..Len(entries) : entries[j].id # id].value

\* pairs holds each id of entries once, with the value of its last entry
OnePerId(pairs, entries) ==
  /\ \A i \in 1..Len(entries) :
       Cardinality({j \in 1..Len(pairs) : pairs[j].id = entries[i].id}) = 1
  /\ \A j \in 1..Len(pairs) :
       /\ \E i \in 1..Len(entries) : entries[i].id = pairs[j].id
       /\ pairs[j].value = LastValue(entries, pairs[j].id)

C20_LastWriteWins ==
  (DecodedPairs /\ origin.family = "pairs") =>
    /\ OnePerId(hist[3].id_values, PairLists[origin.case])
    /\ Encoded => OnePerId(PairsOf(hist[4].block, 8), PairLists[origin.case])

\* a container with three entries under the signature id has been decoded
\* and encoded again
C20_Witness ==
  /\ Encoded /\ origin.family = "pairs" /\ origin.case = "triple"
  /\ Len(hist[3].id_values) = 3
  /\ hist[3].id_values[1] = Sig2Entry
  /\ Len(hist[4].block) < Len(hist[2].out.block)

(***************************************************************************)
(* C12.  Container growth (as stated): a successful injection of a channel *)
(* value of n bytes into an archive whose container has neither a channel  *)
(* entry nor a padding entry makes the container (4 + n) bytes longer, and *)
(* the file grows by as much; n is read as the length of the entry's value *)
(* or as the length of the caller's channel in UTF-8.                      *)
(***************************************************************************)
\* the last call injected into an archive without channel and padding entry
InjectedFresh ==
  /\ InjectedOk
  /\ ~DictHas(Last.trace.id_values, WALLE_CHANNEL_BLOCK_ID)
  /\ ~DictHas(Last.trace.id_values, VERITY_PADDING_BLOCK_ID)

ContainerGrowth == Len(Last.trace.new_apk_signing_block) - Len(Last.trace.apk_signing_block)

FileGrowth == Len(files[Last.target].data) - Len(SourceData(Last))

DistinctIds(pairs) ==
  \A i, j \in 1..Len(pairs) : pairs[i].id = pairs[j].id => i = j

C14_ReaderNeverWrites ==
  \A i \in 1..Len(hist) : hist[i].op = "get" => After(i) = hist[i].before

\* one read has returned the channel of the archive, and one has met a
\* missing file, which is still missing
C14_Witness ==
  /\ Len(hist) = 2
  /\ hist[1].op = "get" /\ hist[1].source = "src" /\ hist[1].got = Some(<<111, 108, 100>>)
  /\ hist[2].op = "get" /\ hist[2].source = "dst" /\ hist[2].raised
  /\ ~files["dst"].exists
  /\ files["src"] = File(Archive(origin))

(***************************************************************************)
(* generate_channels (src/src/core/channel_packer.py, lines 67-196): the   *)
(* batch that makes one package per configured channel.  A third           *)
(* specification runs it one loop pass at a time.  A channel is a dict     *)
(* with a name and a metadata dict (ChannelConfigManager._validate_config  *)
(* admits nothing else); names and ids are strings of code points.         *)
(***************************************************************************)
\* channels of one configuration
MaxChannels == 2

ChannelA == [name |-> <<97>>, metadata |-> << >>]
\* CHANNEL_ID "x/y": the package name has a directory in it that does not exist
ChannelB == [name |-> <<98>>, metadata |-> <<[id |-> "CHANNEL_ID", value |-> <<120, 47, 121>>]>>]
\* CHANNEL_ID "a", as the id ChannelA gets from its name
ChannelC == [name |-> <<99>>, metadata |-> <<[id |-> "CHANNEL_ID", value |-> <<97>>]>>]
ChannelD == [name |-> <<100>>, metadata |-> <<[id |-> "MARKET_NAME", value |-> <<68>>]>>]

ConfigChannels == {ChannelA, ChannelB, ChannelC, ChannelD}

SeqsUpTo(S, n) == UNION {[1..k -> S] : k \in 0..n}

\* line 131
ChannelId(channel) ==
  IF DictHas(channel.metadata, "CHANNEL_ID")
    THEN DictGet(channel.metadata, "CHANNEL_ID")
    ELSE channel.name

\* lines 133-138: "<output dir>/<apk base name>_<channel id><ext>" for the
\* signed archive app.apk and the output directory channels
ChannelApkPath(channel_id) ==
  CASE channel_id = <<97>> -> "channels/app_a.apk"
    [] channel_id = <<100>> -> "channels/app_d.apk"
    [] channel_id = <<120, 47, 121>> -> "channels/app_x/y.apk"

PackerPaths == {"src", "channels/app_a.apk", "channels/app_d.apk", "channels/app_x/y.apk"}

\* the signed archive handed to the batch
PackerArchives ==
  [signed   |-> File(Standard(<<SigEntry, PadEntry>>, << >>)),
   unsigned |-> File(Standard(<<OtherEntry>>, << >>)),
   missing  |-> Absent]

\* config: the configuration file is missing, does not load, or loads with
\* the channels given; jar: lib/walle-cli-all.jar exists; java: the java
\* command can be started
PackerOrigins ==
  [family : {"batch"}, archive : DOMAIN PackerArchives, config : {"missing", "invalid"},
   channels : {<< >>}, jar : BOOLEAN, java : BOOLEAN]
  \cup [family : {"batch"}, archive : DOMAIN PackerArchives, config : {"loaded"},
        channels : SeqsUpTo(ConfigChannels, MaxChannels), jar : BOOLEAN, java : BOOLEAN]

PackerInit ==
  /\ origin \in PackerOrigins
  /\ files = [p \in PackerPaths |-> IF p = "src" THEN PackerArchives[origin.archive] ELSE Absent]
  /\ hist = << >>

\* the values of generate_channels: lines 183-187, and the early returns and
\* the except clause (lines 81-85, 89-93, 98-102, 117-121, 192-196)
Result(channel_packages) ==
  [op |-> "return", success |-> TRUE, channel_packages |-> channel_packages,
   channel_count |-> Len(channel_packages)]

Failure == [op |-> "return", success |-> FALSE, channel_packages |-> << >>]

\* generated_packages as the passes so far left it
GeneratedPackages == IF hist = << >> THEN << >> ELSE hist[Len(hist)].generated_packages

Returned == hist # << >> /\ hist[Len(hist)].op = "return"

\* lines 78-102 and 114-121: the checks in front of the loop
ChecksPass ==
  /\ files["src"].exists
  /\ origin.config = "loaded"
  /\ origin.channels # << >>

\* one of the early returns
ReturnEarly ==
  /\ hist = << >>
  /\ ~ChecksPass
  /\ hist' = <<Failure>>
  /\ UNCHANGED <<files, origin>>

\* one pass of the loop (lines 129-186) for the next channel
Pass(channel, via, out, raised) ==
  [op |-> "pass", channel |-> channel, channel_id |-> ChannelId(channel),
   channel_apk_path |-> ChannelApkPath(ChannelId(channel)), via |-> via,
   success |-> out.result, raised |-> raised,
   generated_packages |->
     IF out.result THEN Append(GeneratedPackages, ChannelApkPath(ChannelId(channel)))
     ELSE GeneratedPackages]

LoopPass ==
  /\ ChecksPass /\ ~Returned /\ Len(hist) < Len(origin.channels)
  /\ LET channel == origin.channels[Len(hist) + 1]
         channel_apk_path == ChannelApkPath(ChannelId(channel))
         out == inject_channel(files, "src", channel_apk_path, ChannelId(channel))
     IN  \/ \* lines 171-179: no official tool, the Python injector only
            /\ ~origin.jar
            /\ files' = out.files
            /\ hist' = Append(hist, Pass(channel, "python", out, FALSE))
         \/ \* lines 153-157: the official tool ends with return code 0; its
            \* package is taken to be the one inject_channel makes
            /\ origin.jar /\ origin.java /\ out.result
            /\ files' = out.files
            /\ hist' = Append(hist, Pass(channel, "tool", out, FALSE))
         \/ \* lines 158-168: another return code, then the Python injector
            /\ origin.jar /\ origin.java
            /\ files' = out.files
            /\ hist' = Append(hist, Pass(channel, "tool, python", out, FALSE))
         \/ \* line 151: subprocess.run cannot start java and raises; the
            \* except clause of lines 188-196 ends the call
            /\ origin.jar /\ ~origin.java
            /\ files' = files
            /\ hist' = hist \o <<Pass(channel, "tool", Failed("tool", "FileNotFoundError", files,
                                                            channel_apk_path, NoTrace), TRUE),
                                 Failure>>
  /\ UNCHANGED origin

\* lines 181-187: the return behind the loop
ReturnAfterLoop ==
  /\ ChecksPass /\ ~Returned /\ Len(hist) = Len(origin.channels)
  /\ hist' = Append(hist, Result(GeneratedPackages))
  /\ UNCHANGED <<files, origin>>

PackerNext == ReturnEarly \/ LoopPass \/ ReturnAfterLoop

PackerSpec == PackerInit /\ [][PackerNext]_vars

(***************************************************************************)
(* C13.  Batch isolation (as stated): when generate_channels has got past  *)
(* its checks and has returned, every configured channel has had its pass, *)
(* in the order of the configuration, whatever became of the passes before *)
(* it, and channel_packages lists the package paths of the passes that     *)
(* succeeded, and only those, in that order.                               *)
(***************************************************************************)
Passes == SelectSeq(hist, LAMBDA r : r.op = "pass")

\* the package paths of the passes that succeeded
RECURSIVE Succeeded(_)
Succeeded(passes) ==
  IF passes = << >> THEN << >>
  ELSE (IF Head(passes).success THEN <<Head(passes).channel_apk_path>> ELSE << >>)
         \o Succeeded(Tail(passes))

C13_BatchIsolation ==
  (Returned /\ ChecksPass) =>
    /\ Len(Passes) = Len(origin.channels)
    /\ \A i \in 1..Len(Passes) : Passes[i].channel = origin.channels[i]
    /\ Last.channel_packages = Succeeded(Passes)

(***************************************************************************)
(* _get_market_name (channel_packer.py, lines 35-65) with                  *)
(* ChannelConfigManager.get_channel_by_name (channel_manager.py, lines     *)
(* 130-139).  Strings are sequences of code points.                        *)
(***************************************************************************)
\* lines 48-61
default_market_map ==
  <<
     \* 'google_play': 'Google Play'
     [id |-> <<103, 111, 111, 103, 108, 101, 95, 112, 108, 97, 121>>,
      value |-> <<71, 111, 111, 103, 108, 101, 32, 80, 108, 97, 121>>],
     \* 'huawei': 'Huawei AppGallery'
     [id |-> <<104, 117, 97, 119, 101, 105>>,
      value |-> <<72, 117, 97, 119, 101, 105, 32, 65, 112, 112, 71, 97, 108, 108, 101, 114, 121>>],
     \* 'xiaomi': 'Xiaomi MIUI Store'
     [id |-> <<120, 105, 97, 111, 109, 105>>,
      value |-> <<88, 105, 97, 111, 109, 105, 32, 77, 73, 85, 73, 32, 83, 116, 111, 114, 101>>],
     \* 'oppo': 'OPPO App Market'
     [id |-> <<111, 112, 112, 111>>,
      value |-> <<79, 80, 80, 79, 32, 65, 112, 112, 32, 77, 97, 114, 107, 101, 116>>],
     \* 'vivo': 'vivo App Store'
     [id |-> <<118, 105, 118, 111>>,
      value |-> <<118, 105, 118, 111, 32, 65, 112, 112, 32, 83, 116, 111, 114, 101>>],
     \* 'meizu': 'Meizu Flyme Store'
     [id |-> <<109, 101, 105, 122, 117>>,
      value |-> <<77, 101, 105, 122, 117, 32, 70, 108, 121, 109, 101, 32, 83, 116, 111, 114, 101>>],
     \* 'samsung': 'Samsung Galaxy Store'
     [id |-> <<115, 97, 109, 115, 117, 110, 103>>,
      value |-> <<83, 97, 109, 115, 117, 110, 103, 32, 71, 97, 108, 97, 120, 121, 32, 83, 116, 111, 114, 101>>],
     \* 'lenovo': 'Lenovo App Store'
     [id |-> <<108, 101, 110, 111, 118, 111>>,
      value |-> <<76, 101, 110, 111, 118, 111, 32, 65, 112, 112, 32, 83, 116, 111, 114, 101>>],
     \* '360': '360 Mobile Assistant'
     [id |-> <<51, 54, 48>>,
      value |-> <<51, 54, 48, 32, 77, 111, 98, 105, 108, 101, 32, 65, 115, 115, 105, 115, 116, 97, 110, 116>>],
     \* 'baidu': 'Baidu Mobile Assistant'
     [id |-> <<98, 97, 105, 100, 117>>,
      value |-> <<66, 97, 105, 100, 117, 32, 77, 111, 98, 105, 108, 101, 32, 65, 115, 115, 105, 115, 116, 97, 110, 116>>],
     \* 'tencent': 'Tencent MyApp'
     [id |-> <<116, 101, 110, 99, 101, 110, 116>>,
      value |-> <<84, 101, 110, 99, 101, 110, 116, 32, 77, 121, 65, 112, 112>>],
     \* 'yingyongbao': '应用宝'
     [id |-> <<121, 105, 110, 103, 121, 111, 110, 103, 98, 97, 111>>,
      value |-> <<24212, 29992, 23453>>] >>

\* str.capitalize on the strings of the model, whose cased characters are the
\* ASCII letters: the first character upper-cased, every other lower-cased
ToUpper(c) == IF c \in 97..122 THEN c - 32 ELSE c
ToLower(c) == IF c \in 65..90 THEN c + 32 ELSE c

capitalize(s) ==
  [i \in 1..Len(s) |-> IF i = 1 THEN ToUpper(s[i]) ELSE ToLower(s[i])]

\* the first channel of that name, or None
get_channel_by_name(channels, channel_name) ==
  IF \E i \in 1..Len(channels) : channels[i].name = channel_name
    THEN Some(channels[CHOOSE i \in 1..Len(channels) :
                         /\ channels[i].name = channel_name
                         /\ \A j \in 1..(i - 1) : channels[j].name # channel_name])
    ELSE None

\* config is the loaded configuration; its market_map is never read
_get_market_name(config, channel_name) ==
  LET channel_config == get_channel_by_name(config.channels, channel_name)
      market_name ==
        IF channel_config.some /\ DictHas(channel_config.value.metadata, "MARKET_NAME")
          THEN DictGet(channel_config.value.metadata, "MARKET_NAME")
          ELSE << >>
  IN  IF market_name # << >> THEN market_name
      ELSE IF DictHas(default_market_map, channel_name)
        THEN DictGet(default_market_map, channel_name)
      ELSE capitalize(channel_name)

\* channels of the configurations: google_play with MARKET_NAME 'Metadata
\* Google Play', huawei without, myStore with an empty MARKET_NAME, and
\* new_channel with MARKET_NAME 'New'
MarketChannels ==
  { [name |-> <<103, 111, 111, 103, 108, 101, 95, 112, 108, 97, 121>>,
     metadata |-> <<[id |-> "CHANNEL_ID", value |-> <<103, 111, 111, 103, 108, 101, 95, 112, 108, 97, 121>>],
                    [id |-> "MARKET_NAME", value |-> <<77, 101, 116, 97, 100, 97, 116, 97, 32, 71, 111, 111, 103, 108, 101, 32, 80, 108, 97, 121>>]>>],
    [name |-> <<104, 117, 97, 119, 101, 105>>,
     metadata |-> <<[id |-> "CHANNEL_ID", value |-> <<104, 117, 97, 119, 101, 105>>]>>],
    [name |-> <<109, 121, 83, 116, 111, 114, 101>>,
     metadata |-> <<[id |-> "MARKET_NAME", value |-> << >>]>>],
    [name |-> <<110, 101, 119, 95, 99, 104, 97, 110, 110, 101, 108>>,
     metadata |-> <<[id |-> "MARKET_NAME", value |-> <<78, 101, 119>>]>>] }

\* the market_map key of a configuration file: absent, or with entries for
\* google_play ('Config Google Play') and myStore ('Config Store')
MarketMaps ==
  { << >>,
    <<[id |-> <<103, 111, 111, 103, 108, 101, 95, 112, 108, 97, 121>>, value |-> <<67, 111, 110, 102, 105, 103, 32, 71, 111, 111, 103, 108, 101, 32, 80, 108, 97, 121>>],
      [id |-> <<109, 121, 83, 116, 111, 114, 101>>, value |-> <<67, 111, 110, 102, 105, 103, 32, 83, 116, 111, 114, 101>>]>> }

\* names asked for: google_play, huawei, xiaomi, new_channel, myStore, ABC,
\* 360, the empty name, and a name without cased characters
MarketNames ==
  { <<103, 111, 111, 103, 108, 101, 95, 112, 108, 97, 121>>, <<104, 117, 97, 119, 101, 105>>, <<120, 105, 97, 111, 109, 105>>,
    <<110, 101, 119, 95, 99, 104, 97, 110, 110, 101, 108>>, <<109, 121, 83, 116, 111, 114, 101>>, <<65, 66, 67>>, <<51, 54, 48>>, << >>,
    <<24212, 95, 49>> }

MarketOrigins ==
  [family : {"market"},
   config : [channels : SeqsUpTo(MarketChannels, MaxChannels), market_map : MarketMaps],
   channel_name : MarketNames]

MarketInit ==
  /\ origin \in MarketOrigins
  /\ files = [p \in Paths |-> Absent]
  /\ hist = << >>

\* a call of _get_market_name on the loaded configuration
MarketName ==
  /\ hist = << >>
  /\ hist' = <<[op |-> "_get_market_name",
                out |-> _get_market_name(origin.config, origin.channel_name)]>>
  /\ UNCHANGED <<files, origin>>

MarketNext == MarketName

MarketSpec == MarketInit /\ [][MarketNext]_vars

(***************************************************************************)
(* C15.  Market-name resolution (as stated): _get_market_name returns the  *)
(* non-empty MARKET_NAME of the configured channel of that name (the first *)
(* one, should there be several) when it has one; otherwise the built-in   *)
(* name; otherwise the name with its first letter in upper case and the    *)
(* rest as given.  The configuration's market_map changes nothing.         *)
(***************************************************************************)
\* the first channel of that name has a non-empty MARKET_NAME
HasMarketName(channels, channel_name) ==
  \E i \in 1..Len(channels) :
    /\ channels[i].name = channel_name
    /\ \A j \in 1..(i - 1) : channels[j].name # channel_name
    /\ \E k \in 1..Len(channels[i].metadata) :
         /\ channels[i].metadata[k].id = "MARKET_NAME"
         /\ channels[i].metadata[k].value # << >>

MarketNameOf(channels, channel_name) ==
  LET i == CHOOSE i \in 1..Len(channels) :
             /\ channels[i].name = channel_name
             /\ \A j \in 1..(i - 1) : channels[j].name # channel_name
      k == CHOOSE k \in 1..Len(channels[i].metadata) :
             channels[i].metadata[k].id = "MARKET_NAME"
  IN  channels[i].metadata[k].value

BuiltIn(channel_name) ==
  {e \in {default_market_map[i] : i \in 1..Len(default_market_map)} : e.id = channel_name}

FirstLetterUpper(s) ==
  [i \in 1..Len(s) |-> IF i = 1 /\ s[i] \in 97..122 THEN s[i] - 32 ELSE s[i]]

C15_MarketName ==
  hist # << >> =>
    LET channels == origin.config.channels
        name == origin.channel_name
        out == hist[1].out
    IN  IF HasMarketName(channels, name) THEN out = MarketNameOf(channels, name)
        ELSE IF BuiltIn(name) # {} THEN \E e \in BuiltIn(name) : out = e.value
        ELSE out = FirstLetterUpper(name)

(***************************************************************************)
(* DexEncryptor (dex_encryptor.py, lines 16-72): generate_key, encrypt_dex *)
(* and decrypt_dex.  AES is library code; it is modelled as what CBC mode  *)
(* needs of it, a keyed permutation of the 16-byte blocks, and the CBC     *)
(* chaining around it is computed byte by byte.                            *)
(***************************************************************************)
\* AES.block_size
block_size == 16

\* longest dex_data, and most calls on one encryptor
MaxDexLen == 33
MaxDexOps == 3

RECURSIVE XorBits(_, _, _)
XorBits(a, b, n) ==
  IF n = 0 THEN 0
  ELSE (((a % 2) + (b % 2)) % 2) + 2 * XorBits(a \div 2, b \div 2, n - 1)

\* the bytewise exclusive or of two blocks
XorBlock(x, y) == [i \in 1..block_size |-> XorBits(x[i], y[i], 8)]

\* the block permutation under a 32-byte key, and its inverse
BlockEncrypt(key, block) ==
  [i \in 1..block_size |->
     (block[(i % block_size) + 1] + key[i] + key[i + block_size]) % 256]

BlockDecrypt(key, block) ==
  [j \in 1..block_size |->
     LET i == ((j + block_size - 2) % block_size) + 1
     IN  (block[i] + 512 - key[i] - key[i + block_size]) % 256]

BlockOf(data, k) == SubSeq(data, (k - 1) * block_size + 1, k * block_size)

\* cipher.encrypt of AES.MODE_CBC on a whole number of blocks
RECURSIVE CbcEncrypt(_, _, _)
CbcEncrypt(key, previous, data) ==
  IF data = << >> THEN << >>
  ELSE LET c == BlockEncrypt(key, XorBlock(BlockOf(data, 1), previous))
       IN  c \o CbcEncrypt(key, c, SubSeq(data, block_size + 1, Len(data)))

\* cipher.decrypt of AES.MODE_CBC on a whole number of blocks
RECURSIVE CbcDecrypt(_, _, _)
CbcDecrypt(key, previous, data) ==
  IF data = << >> THEN << >>
  ELSE LET c == BlockOf(data, 1)
       IN  XorBlock(BlockDecrypt(key, c), previous)
             \o CbcDecrypt(key, c, SubSeq(data, block_size + 1, Len(data)))

\* a padding length that adds nothing to a whole number of blocks
pad_length_NoFullBlock(n) == (block_size - (n % block_size)) % block_size

\* line 44
pad_length(n) == block_size - (n % block_size)

\* line 45
padded_data(dex_data) ==
  dex_data \o [i \in 1..pad_length(Len(dex_data)) |-> pad_length(Len(dex_data))]

\* lines 44-48, under the key and IV of the encryptor
encrypt_dex(self, dex_data) ==
  CbcEncrypt(self.encryption_key, self.iv, padded_data(dex_data))

\* decrypted_padded[:-pad_length] of line 67
StripLast(s, n) ==
  IF n = 0 THEN << >>
  ELSE SubSeq(s, 1, IF Len(s) > n THEN Len(s) - n ELSE 0)

\* lines 63-69; the read of the last byte raises on an empty text
decrypt_dex(self, encrypted_data) ==
  LET decrypted_padded == CbcDecrypt(self.encryption_key, self.iv, encrypted_data)
  IN  IF decrypted_padded = << >>
        THEN [raised |-> TRUE, out |-> << >>]
        ELSE [raised |-> FALSE,
              out |-> StripLast(decrypted_padded,
                                decrypted_padded[Len(decrypted_padded)])]

\* the encryptor after __init__ (lines 19-22)
NoKey == [generated |-> FALSE, encryption_key |-> << >>, iv |-> << >>]

\* lines 28-29: what get_random_bytes may return, two of the 32-byte keys
\* and two of the 16-byte IVs
GeneratedKeys ==
  [generated : {TRUE},
   encryption_key : { [i \in 1..(2 * block_size) |-> i],
                      [i \in 1..(2 * block_size) |-> (7 * i + 200) % 256] },
   iv : { [i \in 1..block_size |-> 0],
          [i \in 1..block_size |-> 255 - i] }]

\* dex_data of every length up to MaxDexLen: a run that ends in the byte
\* of its own length, and a run of bytes 255, 0, 1, ...
DexData ==
  { [i \in 1..n |-> (b + i) % 256] : n \in 0..MaxDexLen, b \in {0, 254} }

DexOrigins == [family : {"dex"}, dex_data : DexData]

DexInit ==
  /\ origin \in DexOrigins
  /\ files = [p \in Paths |-> Absent]
  /\ hist = << >>

\* the encryptor's fields after the calls so far
Self == IF hist = << >> THEN NoKey ELSE hist[Len(hist)].self

\* generate_key (lines 24-30)
GenerateKey ==
  /\ Len(hist) < MaxDexOps
  /\ \E fresh \in GeneratedKeys :
       hist' = Append(hist, [op |-> "generate_key", self |-> fresh])
  /\ UNCHANGED <<files, origin>>

\* encrypt_dex (lines 32-54) of the origin's dex_data; it generates a key
\* when the encryptor has none
EncryptDex ==
  /\ Len(hist) < MaxDexOps
  /\ \E fresh \in GeneratedKeys :
       LET self == IF Self.generated THEN Self ELSE fresh
       IN  hist' = Append(hist, [op |-> "encrypt_dex",
                                 self |-> self,
                                 dex_data |-> origin.dex_data,
                                 padded_data |-> padded_data(origin.dex_data),
                                 encrypted_data |-> encrypt_dex(self, origin.dex_data)])
  /\ UNCHANGED <<files, origin>>

\* decrypt_dex (lines 56-72) of the text of an earlier encrypt_dex
DecryptDex ==
  /\ Len(hist) < MaxDexOps
  /\ Self.generated
  /\ \E i \in 1..Len(hist) :
       /\ hist[i].op = "encrypt_dex"
       /\ LET r == decrypt_dex(Self, hist[i].encrypted_data)
          IN  hist' = Append(hist, [op |-> "decrypt_dex",
                                    self |-> Self,
                                    encrypted_data |-> hist[i].encrypted_data,
                                    raised |-> r.raised,
                                    decrypted_data |-> r.out])
  /\ UNCHANGED <<files, origin>>

DexNext == GenerateKey \/ EncryptDex \/ DecryptDex

DexSpec == DexInit /\ [][DexNext]_vars

(***************************************************************************)
(* C16.  DEX encryption round trip: for every dex_data, the empty one and  *)
(* those of a whole number of blocks included, encrypt_dex appends between *)
(* 1 and 16 bytes of padding, its result is as long as the next multiple   *)
(* of 16 strictly above the length of dex_data, and decrypt_dex of that    *)
(* result under the same key and IV returns dex_data.                      *)
(***************************************************************************)
C16_RoundTrip ==
  /\ \A i \in 1..Len(hist) :
       hist[i].op = "encrypt_dex" =>
         LET n == Len(hist[i].dex_data)
             appended == Len(hist[i].padded_data) - n
         IN  /\ SubSeq(hist[i].padded_data, 1, n) = hist[i].dex_data
             /\ appended \in 1..16
             /\ Len(hist[i].encrypted_data) = n + appended
             /\ Len(hist[i].encrypted_data) % 16 = 0
             /\ Len(hist[i].encrypted_data) > n
             /\ Len(hist[i].encrypted_data) - 16 <= n
  /\ \A i \in 1..Len(hist) : \A j \in (i + 1)..Len(hist) :
       ( /\ hist[i].op = "encrypt_dex"
         /\ hist[j].op = "decrypt_dex"
         /\ hist[j].encrypted_data = hist[i].encrypted_data
         /\ hist[j].self = hist[i].self )
       => /\ ~hist[j].raised
          /\ hist[j].decrypted_data = hist[i].dex_data

\* dex_data of two whole blocks went there and back under one key and IV
C16_Witness ==
  /\ Len(hist) = 3
  /\ Len(origin.dex_data) = 32
  /\ hist[1].op = "generate_key"
  /\ hist[2].op = "encrypt_dex"
  /\ Len(hist[2].encrypted_data) = 48
  /\ hist[3].op = "decrypt_dex"
  /\ hist[3].self = hist[2].self
  /\ hist[3].decrypted_data = origin.dex_data

(***************************************************************************)
(* C21.  Encode layout (as stated): the leading size field written by      *)
(* _create_apk_signing_block is the sum over the entries of (4 + value     *)
(* length), plus 24; behind it come the entries, each as the u64 number    *)
(* 4 + value length, the u32 id and the value, then the size once more,    *)
(* then the two magic words.                                               *)
(***************************************************************************)
\* the sum over the entries of (per_entry + value length)
RECURSIVE SumOfEntries(_, _)
SumOfEntries(id_values, per_entry) ==
  IF id_values = << >> THEN 0
  ELSE per_entry + Len(Head(id_values).value) + SumOfEntries(Tail(id_values), per_entry)

\* entry k of id_values stands at its place behind the 8-byte size field
EntryInPlace(block, id_values, k) ==
  LET at == 8 + SumOfEntries(SubSeq(id_values, 1, k - 1), 12)
      n == Len(id_values[k].value)
  IN  /\ FieldAt(block, at, at + 8) = 4 + n
      /\ BytesAt(block, at + 8, at + 12) = id_values[k].id
      /\ BytesAt(block, at + 12, at + 12 + n) = id_values[k].value

\* the entries, the size again and the magic words, behind the size field
LaidOut(block, id_values) ==
  LET end == 8 + SumOfEntries(id_values, 12)
  IN  /\ \A k \in 1..Len(id_values) : EntryInPlace(block, id_values, k)
      /\ Len(block) = end + 24
      /\ BytesAt(block, end, end + 8) = BytesAt(block, 0, 8)
      /\ BytesAt(block, end + 8, end + 16) = APK_SIG_BLOCK_MAGIC_LO
      /\ BytesAt(block, end + 16, end + 24) = APK_SIG_BLOCK_MAGIC_HI

C21_LayoutAsStated ==
  Encoded =>
    /\ FieldAt(hist[4].block, 0, 8) = SumOfEntries(hist[3].id_values, 4) + 24
    /\ LaidOut(hist[4].block, hist[3].id_values)

(***************************************************************************)
(* C21, amended.  The size field counts the 8-byte length field of every   *)
(* entry too: it is the sum over the entries of (12 + value length), plus  *)
(* 24, the length of the container less the size field itself.  The rest   *)
(* of the layout is as stated.                                             *)
(***************************************************************************)
C21_Layout ==
  Encoded =>
    /\ FieldAt(hist[4].block, 0, 8) = SumOfEntries(hist[3].id_values, 12) + 24
    /\ FieldAt(hist[4].block, 0, 8) = Len(hist[4].block) - 8
    /\ LaidOut(hist[4].block, hist[3].id_values)

\* a mapping of two entries has been encoded
C21_Witness ==
  /\ Encoded /\ origin.family = "pairs" /\ origin.case = "good"
  /\ hist[3].id_values = <<SigEntry, OtherEntry>>
  /\ FieldAt(hist[4].block, 0, 8) = 24 + 12 + Len(SigEntry.value) + 12 + Len(OtherEntry.value)

(***************************************************************************)
(* C22.  Codec round trip and ordering: the mapping an injection encodes   *)
(* has distinct ids; the container made from it holds the mapping's        *)
(* entries in the mapping's order, and decoding that container gives the   *)
(* same entries in the same order.  So after an injection the entries      *)
(* that were there before, the padding entry apart, keep their relative    *)
(* order, a new channel entry is the last one, and a channel entry that    *)
(* was there keeps its place.                                              *)
(***************************************************************************)
\* the entries of a mapping that are neither channel nor padding entry
OtherEntries(pairs) ==
  SelectSeq(pairs, LAMBDA e : e.id \notin {WALLE_CHANNEL_BLOCK_ID, VERITY_PADDING_BLOCK_ID})

\* the places a mapping holds the channel entry at
ChannelPlaces(pairs) == {i \in 1..Len(pairs) : pairs[i].id = WALLE_CHANNEL_BLOCK_ID}

C22_RoundTripAndOrder ==
  InjectedOk =>
    LET old == SelectSeq(Last.trace.id_values,
                         LAMBDA e : e.id # VERITY_PADDING_BLOCK_ID)
        emitted == PairsOf(Last.trace.new_apk_signing_block, 8)
        decoded == _find_id_values(Last.trace.new_apk_signing_block)
    IN  /\ DistinctIds(emitted)
        /\ decoded = emitted
        /\ WellFormedContainer(Last.trace.new_apk_signing_block)
        /\ OtherEntries(emitted) = OtherEntries(old)
        /\ IF ChannelPlaces(old) = {}
             THEN ChannelPlaces(emitted) = {Len(emitted)} /\ Len(emitted) = Len(old) + 1
             ELSE ChannelPlaces(emitted) = ChannelPlaces(old) /\ Len(emitted) = Len(old)

\* an injection into a container whose first entry was a channel entry,
\* followed by the signature entry
C22_Witness ==
  /\ InjectedOk
  /\ origin.layout = "standard" /\ origin.entries = "chan_sig"
  /\ Last.trace.id_values = <<OldChannelEntry, SigEntry>>
  /\ ChannelPlaces(PairsOf(Last.trace.new_apk_signing_block, 8)) = {1}
  /\ PairsOf(Last.trace.new_apk_signing_block, 8)[2] = SigEntry

(***************************************************************************)
(* C23.  Padding removal: after a successful inject_channel the container  *)
(* of the destination holds no Optional Padding Entry, whether the source  *)
(* had one or not, and holds every other entry the source's container      *)
(* had, the channel entry apart; and the injection from a source with a    *)
(* signature entry succeeds with and without a padding entry.              *)
(***************************************************************************)
C23_PaddingRemoval ==
  /\ InjectedOk =>
       LET destination == Decoded(files[Last.target].data)
       IN  /\ destination.ok
           /\ ~DictHas(destination.id_values, VERITY_PADDING_BLOCK_ID)
           /\ OtherEntries(destination.id_values) = OtherEntries(Last.trace.id_values)
  /\ ( /\ Called /\ Last.op = "inject" /\ Last.source = "src"
       /\ origin.layout # "defective"
       /\ HasId(origin.entries, APK_SIGNATURE_SCHEME_V2_BLOCK_ID)
       /\ Utf8Encodable(create_channel_info(Last.channel)) )
     => Last.result

(***************************************************************************)
(* ChannelConfigManager (channel_manager.py, lines 12-219): load_config,   *)
(* _validate_config, add_channel and remove_channel.  A YAML value whose   *)
(* type the code tests carries its type; a mapping carries the set of its  *)
(* keys.  A configuration is [type, keys, channels_type, channels], a      *)
(* channel is [type, keys, name, metadata_type, metadata].                 *)
(***************************************************************************)
\* most calls on one manager
MaxManagerOps == 3

YamlChannel(keys, name, metadata_type, metadata) ==
  [type |-> "dict", keys |-> keys, name |-> name,
   metadata_type |-> metadata_type, metadata |-> metadata]

\* a list item that is a string
ScalarChannel ==
  [type |-> "str", keys |-> {}, name |-> "", metadata_type |-> "dict", metadata |-> << >>]

YamlConfig(keys, channels_type, channels) ==
  [type |-> "dict", keys |-> keys, channels_type |-> channels_type, channels |-> channels]

\* an empty document
YamlNone == [type |-> "NoneType", keys |-> {}, channels_type |-> "list", channels |-> << >>]

Named(name, value) ==
  YamlChannel({"name", "metadata"}, name, "dict",
              <<[id |-> "CHANNEL_ID", value |-> value]>>)

Bare(name) == YamlChannel({"name"}, name, "dict", << >>)

\* the configuration files: what yaml.safe_load gives for each path
ConfigFiles ==
  [empty        |-> YamlNone,
   no_channels  |-> YamlConfig({"version"}, "list", << >>),
   channels_str |-> YamlConfig({"version", "output", "channels"}, "str", << >>),
   nameless     |-> YamlConfig({"channels"}, "list",
                      <<Bare("a"), YamlChannel({"metadata"}, "", "dict", << >>)>>),
   bad_metadata |-> YamlConfig({"version", "channels"}, "list",
                      <<YamlChannel({"name", "metadata"}, "a", "list", << >>)>>),
   scalar       |-> YamlConfig({"version", "output", "channels"}, "list",
                      <<Named("b", <<98>>), ScalarChannel>>),
   one          |-> YamlConfig({"version", "output", "channels"}, "list",
                      <<Named("a", <<97>>)>>),
   two          |-> YamlConfig({"channels"}, "list", <<Bare("a"), Named("b", <<98>>)>>),
   dups         |-> YamlConfig({"version", "output", "channels"}, "list",
                      <<Named("a", <<97>>), Named("b", <<98>>), Named("a", <<65>>)>>)]

\* paths without a file, and with a file that is not YAML
ConfigPaths == DOMAIN ConfigFiles \cup {"missing", "syntax"}

\* __init__ (lines 15-19); "None" is the config_path None
NewManager ==
  [config |-> YamlConfig({}, "list", << >>), channels |-> << >>, config_path |-> "None"]

\* lines 90-106: the loop over the channels, which fills in a missing
\* metadata in place before it may fail on a later channel
RECURSIVE ValidateChannels(_, _)
ValidateChannels(channels, i) ==
  IF i > Len(channels) THEN [ok |-> TRUE, channels |-> channels]
  ELSE
    LET channel == channels[i]
        filled == [channel EXCEPT !.keys = @ \cup {"metadata"}]
    IN  IF channel.type # "dict" THEN [ok |-> FALSE, channels |-> channels]
        ELSE IF "name" \notin channel.keys THEN [ok |-> FALSE, channels |-> channels]
        ELSE IF "metadata" \notin channel.keys
          THEN ValidateChannels([channels EXCEPT ![i] = filled], i + 1)
        ELSE IF channel.metadata_type # "dict" THEN [ok |-> FALSE, channels |-> channels]
        ELSE ValidateChannels(channels, i + 1)

\* lines 58-111: the verdict, and self.config as the checks leave it
_validate_config(config) ==
  IF config.type # "dict" THEN [ok |-> FALSE, config |-> config]
  ELSE
    LET defaulted == [config EXCEPT !.keys = @ \cup {"version", "output"}]
        checked == ValidateChannels(config.channels, 1)
    IN  IF "channels" \notin config.keys THEN [ok |-> FALSE, config |-> defaulted]
        ELSE IF config.channels_type # "list" THEN [ok |-> FALSE, config |-> defaulted]
        ELSE [ok |-> checked.ok,
              config |-> [defaulted EXCEPT !.channels = checked.channels]]

\* lines 21-56: self.config is assigned at line 37, before the validation
load_config(self, config_path) ==
  IF config_path \notin DOMAIN ConfigFiles THEN [result |-> FALSE, self |-> self]
  ELSE LET valid == _validate_config(ConfigFiles[config_path])
       IN  IF ~valid.ok
             THEN [result |-> FALSE, self |-> [self EXCEPT !.config = valid.config]]
             ELSE [result |-> TRUE,
                   self |-> [config |-> valid.config, channels |-> valid.config.channels,
                             config_path |-> config_path]]

\* self.config['channels'] = self.channels (lines 190, 213): a TypeError
\* when self.config is no dict, after self.channels has been assigned
StoreChannels(self, channels) ==
  IF self.config.type # "dict"
    THEN [result |-> FALSE, self |-> [self EXCEPT !.channels = channels]]
    ELSE [result |-> TRUE,
          self |-> [self EXCEPT !.channels = channels,
                                !.config = [@ EXCEPT !.keys = @ \cup {"channels"},
                                                     !.channels_type = "list",
                                                     !.channels = channels]]]

\* an add that appends without looking for a channel of that name
add_channel_Append(self, channel_config) ==
  IF channel_config.type # "dict" \/ "name" \notin channel_config.keys
    THEN [result |-> FALSE, self |-> self]
    ELSE StoreChannels(self, Append(self.channels,
                                    [channel_config EXCEPT !.keys = @ \cup {"metadata"}]))

\* lines 162-196
add_channel(self, channel_config) ==
  IF channel_config.type # "dict" THEN [result |-> FALSE, self |-> self]
  ELSE IF "name" \notin channel_config.keys THEN [result |-> FALSE, self |-> self]
  ELSE
    LET filled == [channel_config EXCEPT !.keys = @ \cup {"metadata"}]
        existing_channel == get_channel_by_name(self.channels, filled.name)
        others == IF existing_channel.some
                    THEN SelectSeq(self.channels, LAMBDA c : c.name # filled.name)
                    ELSE self.channels
    IN  StoreChannels(self, Append(others, filled))

\* lines 198-219
remove_channel(self, channel_name) ==
  IF ~get_channel_by_name(self.channels, channel_name).some
    THEN [result |-> FALSE, self |-> self]
    ELSE StoreChannels(self, SelectSeq(self.channels, LAMBDA c : c.name # channel_name))

\* the arguments of add_channel: a string, a dict without name, and channels
\* with and without metadata
AddArguments ==
  {ScalarChannel, YamlChannel({"metadata"}, "", "dict", << >>),
   Named("a", <<120>>), Bare("c"), Named("b", <<98>>)}

ChannelNames == {"a", "b", "z"}

ManagerInit ==
  /\ origin = [family |-> "manager"]
  /\ files = [p \in Paths |-> Absent]
  /\ hist = << >>

\* the manager's fields after the calls so far
Manager == IF hist = << >> THEN NewManager ELSE hist[Len(hist)].self

ManagerCall(op, arg, out) ==
  /\ Len(hist) < MaxManagerOps
  /\ hist' = Append(hist, [op |-> op, arg |-> arg, before |-> Manager,
                           result |-> out.result, self |-> out.self])
  /\ UNCHANGED <<files, origin>>

LoadConfig ==
  \E config_path \in ConfigPaths :
    ManagerCall("load_config", [path |-> config_path], load_config(Manager, config_path))

AddChannel ==
  \E channel_config \in AddArguments :
    ManagerCall("add_channel", [channel |-> channel_config],
                add_channel(Manager, channel_config))

RemoveChannel ==
  \E channel_name \in ChannelNames :
    ManagerCall("remove_channel", [name |-> channel_name],
                remove_channel(Manager, channel_name))

ManagerNext == LoadConfig \/ AddChannel \/ RemoveChannel

ManagerSpec == ManagerInit /\ [][ManagerNext]_vars

(***************************************************************************)
(* C26.  add_channel is an upsert by name: after add_channel(c) has        *)
(* returned True, get_channel_by_name(c.name) returns c (with the empty    *)
(* metadata the call gives a c that has none), one channel of              *)
(* get_channels() has that name, c is the last channel, and the channels   *)
(* of other names are the same as before, in the same order.               *)
(* remove_channel(n) returns False and changes nothing when no channel is  *)
(* named n; otherwise it removes every channel named n and no other.       *)
(***************************************************************************)
\* the channels of other names, in order
NotNamed(channels, name) == SelectSeq(channels, LAMBDA c : c.name # name)

HowManyNamed(channels, name) ==
  Cardinality({i \in 1..Len(channels) : channels[i].name = name})

C26_Upsert ==
  \A i \in 1..Len(hist) :
    LET call == hist[i]
        before == call.before.channels
        after == call.self.channels
    IN  /\ (call.op = "add_channel" /\ call.result) =>
              LET c == [call.arg.channel EXCEPT !.keys = @ \cup {"metadata"}]
              IN  /\ get_channel_by_name(after, c.name) = Some(c)
                  /\ HowManyNamed(after, c.name) = 1
                  /\ after[Len(after)] = c
                  /\ NotNamed(after, c.name) = NotNamed(before, c.name)
        /\ call.op = "remove_channel" =>
              IF HowManyNamed(before, call.arg.name) = 0
                THEN ~call.result /\ call.self = call.before
                ELSE /\ after = NotNamed(before, call.arg.name)
                     /\ HowManyNamed(after, call.arg.name) = 0

\* a channel named a was added to a configuration that had two of that
\* name around a channel b, and then b was removed
C26_Witness ==
  /\ Len(hist) = 3
  /\ hist[1].op = "load_config" /\ hist[1].arg.path = "dups" /\ hist[1].result
  /\ hist[2].op = "add_channel" /\ hist[2].arg.channel = Named("a", <<120>>)
  /\ hist[2].result
  /\ hist[2].self.channels = <<Named("b", <<98>>), Named("a", <<120>>)>>
  /\ hist[3].op = "remove_channel" /\ hist[3].arg.name = "b" /\ hist[3].result
  /\ hist[3].self.channels = <<Named("a", <<120>>)>>

(***************************************************************************)
(* C30.  The manager keeps its state on failure: a load_config,            *)
(* add_channel or remove_channel call that returns False leaves config,    *)
(* channels and config_path as they were before the call; and once a       *)
(* load or an add has succeeded, get_channels() equals config['channels'] *)
(* after every call.                                                       *)
(***************************************************************************)
\* a load or an add has succeeded among the first i calls
Established(i) ==
  \E j \in 1..i : hist[j].op \in {"load_config", "add_channel"} /\ hist[j].result

C30_StateOnFailure ==
  \A i \in 1..Len(hist) :
    /\ ~hist[i].result => hist[i].self = hist[i].before
    /\ Established(i) =>
         /\ hist[i].self.config.type = "dict"
         /\ "channels" \in hist[i].self.config.keys
         /\ hist[i].self.config.channels_type = "list"
         /\ hist[i].self.config.channels = hist[i].self.channels

(***************************************************************************)
(* C27.  Decode terminates: on every container the locator returns,        *)
(* whatever lengths its entries declare, each pass of the loop of          *)
(* _find_id_values moves the cursor forward by 8 bytes or more, and the    *)
(* loop makes no more than (container length - 32) / 8 + 1 passes.         *)
(***************************************************************************)
C27_DecodeTerminates ==
  DecodedPairs =>
    LET block == hist[2].out.block
        steps == hist[3].steps
    IN  /\ Len(steps) <= ((Len(block) - 32) \div 8) + 1
        /\ \A i \in 1..Len(steps) :
             /\ steps[i].pos < Len(block) - 24
             /\ steps[i].pos >= 8 * i
             /\ i < Len(steps) => steps[i + 1].pos >= steps[i].pos + 8
        /\ Len(hist[3].id_values) <= Len(steps)

\* a container whose first entry declares 0 bytes has been decoded: the
\* second pass starts 8 bytes behind the first
C27_Witness ==
  /\ DecodedPairs /\ origin.family = "corrupt" /\ origin.case = "size_0"
  /\ Len(hist[3].steps) >= 2
  /\ hist[3].steps[1].entry_size = 0
  /\ hist[3].steps[2].pos = hist[3].steps[1].pos + 8

(***************************************************************************)
(* C29.  Batch success means complete: generate_channels returns success   *)
(* True only when every configured channel has got its package, so that    *)
(* channel_count is the number of channels of the configuration; when a    *)
(* pass has failed, the result reports failure.                            *)
(***************************************************************************)
C29_SuccessMeansComplete ==
  (Returned /\ Last.success) =>
    /\ Last.channel_count = Len(origin.channels)
    /\ Len(Passes) = Len(origin.channels)
    /\ \A i \in 1..Len(Passes) : Passes[i].success


(***************************************************************************)
(* inject_channel, one file operation at a time.  Two invocations run from *)
(* the same source, into two destinations or into one, and the scheduler   *)
(* interleaves their file operations in any order.  hist holds the two     *)
(* invocations: where each one is (pc), its arguments, the locals it has   *)
(* computed so far and, once it has returned, its result.  Each helper     *)
(* opens the file, reads and closes it, and is one step; each f.read,      *)
(* f.write and f.truncate of step 10 is one step; an invocation may also   *)
(* be killed between two steps.                                            *)
(***************************************************************************)
StepPaths == {"src", "dst", "dst2"}

\* the source archives of the interleaved runs: every layout, without a
\* comment where the layout leaves the choice, and the container with the
\* long padding entry inside the ZIP comment
StepArchives ==
  {o \in Origins : o.comment = << >> \/ o.layout = "straddle"}
    \cup {[layout |-> "in_comment", entries |-> "sig_bigpad", comment |-> << >>,
           defect |-> "none"]}

StepOrigins ==
  [family : {"steps"}, archive : StepArchives, targets : {"different", "same"},
   second : {<<97>>, <<34, 233>>}]

Invocation(source_apk, target_apk, channel) ==
  [pc |-> "copy_open", source |-> source_apk, target |-> target_apk,
   channel |-> channel, comment_length |-> 0, central_dir_offset |-> 0,
   apk_signing_block_offset |-> 0, apk_signing_block |-> << >>,
   new_apk_signing_block |-> << >>, central_dir_data |-> << >>, position |-> 0,
   result |-> FALSE, err |-> "none", at |-> "none", overlapped |-> FALSE]

StepFiles(o) ==
  [p \in StepPaths |-> IF p = "src" THEN File(Archive(o.archive)) ELSE Absent]

StepInit ==
  /\ origin \in StepOrigins
  /\ files = StepFiles(origin)
  /\ hist = << Invocation("src", "dst", <<97>>),
               Invocation("src", IF origin.targets = "same" THEN "dst" ELSE "dst2",
                          origin.second) >>

Running(inv) == inv.pc \notin {"done", "aborted"}

\* the statement order of lines 219-283, written with the order of writing
\* and patching exchanged
StepAfter_PatchFirst(pc) ==
  CASE pc = "copy_open" -> "copy_data"
    [] pc = "copy_data" -> "scan"
    [] pc = "scan" -> "offset"
    [] pc = "offset" -> "locate"
    [] pc = "locate" -> "read_cd"
    [] pc = "read_cd" -> "patch"
    [] pc = "patch" -> "write_block"
    [] pc = "write_block" -> "write_cd"
    [] pc = "write_cd" -> "truncate"
    [] pc = "truncate" -> "done"

\* the statement order of lines 219-283
StepAfter(pc) ==
  CASE pc = "copy_open" -> "copy_data"
    [] pc = "copy_data" -> "scan"
    [] pc = "scan" -> "offset"
    [] pc = "offset" -> "locate"
    [] pc = "locate" -> "read_cd"
    [] pc = "read_cd" -> "write_block"
    [] pc = "write_block" -> "write_cd"
    [] pc = "write_cd" -> "truncate"
    [] pc = "truncate" -> "patch"
    [] pc = "patch" -> "done"

\* step 10 opens the source instead of the target
WritePath_Source(inv) == inv.source

\* line 260: the file step 10 opens with mode 'r+b'
WritePath(inv) == inv.target

\* invocation p takes a step: locals is the invocation with its new locals,
\* fs the files after the step
Advance(p, locals, fs) ==
  /\ files' = fs
  /\ hist' = [hist EXCEPT ![p] =
                [locals EXCEPT !.pc = StepAfter(hist[p].pc),
                               !.result = (StepAfter(hist[p].pc) = "done"),
                               !.overlapped = @ \/ (Running(hist[3 - p])
                                                    /\ hist[3 - p].pc # "copy_open")]]
  /\ UNCHANGED origin

\* lines 287-291: the step raised; the except clause returns False
Raised(p, e, fs) ==
  /\ files' = fs
  /\ hist' = [hist EXCEPT ![p] = [@ EXCEPT !.pc = "done", !.result = FALSE, !.err = e,
                                           !.at = hist[p].pc]]
  /\ UNCHANGED origin

\* shutil.copy2, lines 219-221: the source is opened for reading and the
\* target with mode 'wb', which creates it or empties it
Copy2Open(p) ==
  LET inv == hist[p]
  IN  /\ inv.pc = "copy_open"
      /\ IF inv.source = inv.target
           THEN Advance(p, inv, files)
         ELSE IF ~files[inv.source].exists \/ ~Creatable(inv.target)
           THEN Raised(p, "FileNotFoundError", files)
         ELSE Advance(p, inv, [files EXCEPT ![inv.target] = File(<< >>)])

\* shutil.copy2: the source's bytes are written from the target's start
Copy2Data(p) ==
  LET inv == hist[p]
  IN  /\ inv.pc = "copy_data"
      /\ IF inv.source = inv.target
           THEN Advance(p, inv, files)
           ELSE Advance(p, inv,
                        [files EXCEPT ![inv.target] =
                           File(FileWrite(files[inv.target].data, 0,
                                          files[inv.source].data))])

\* line 224
GetCommentLength(p) ==
  LET inv == hist[p]
      comment == _get_comment_length(files[inv.target].data)
  IN  /\ inv.pc = "scan"
      /\ IF ~files[inv.target].exists THEN Raised(p, "FileNotFoundError", files)
         ELSE IF ~comment.ok THEN Raised(p, comment.err, files)
         ELSE Advance(p, [inv EXCEPT !.comment_length = comment.value], files)

\* line 228: a seek before the start of the file raises OSError, and a short
\* read makes struct.unpack raise
FindCentralDirStartOffset(p) ==
  LET inv == hist[p]
      data == files[inv.target].data
      at == Len(data) - inv.comment_length - 6
  IN  /\ inv.pc = "offset"
      /\ IF ~files[inv.target].exists THEN Raised(p, "FileNotFoundError", files)
         ELSE IF at < 0 THEN Raised(p, "OSError", files)
         ELSE IF Len(Slice(data, at, at + 4)) # 4 THEN Raised(p, "struct.error", files)
         ELSE Advance(p, [inv EXCEPT !.central_dir_offset =
                                       _find_central_dir_start_offset(
                                         data, inv.comment_length)],
                      files)

\* lines 232-257: the container is located and read, and steps 4 to 9 build
\* the new container from it without touching a file
FindApkSigningBlock(p) ==
  LET inv == hist[p]
      data == files[inv.target].data
      found == _find_apk_signing_block(data, inv.central_dir_offset)
      id_values == _find_id_values(found.block)
      need_padding == DictHas(id_values, VERITY_PADDING_BLOCK_ID)
      kept == IF need_padding THEN DictDel(id_values, VERITY_PADDING_BLOCK_ID) ELSE id_values
      channel_json == create_channel_info(inv.channel)
      channel_bytes == Utf8Encode(channel_json)
  IN  /\ inv.pc = "locate"
      /\ IF ~files[inv.target].exists THEN Raised(p, "FileNotFoundError", files)
         ELSE IF ~found.ok THEN Raised(p, found.err, files)
         ELSE IF ~GatePasses(id_values) THEN Raised(p, "SignatureNotFound:v2", files)
         ELSE IF ~Utf8Encodable(channel_json) THEN Raised(p, "UnicodeEncodeError", files)
         ELSE Advance(p, [inv EXCEPT !.apk_signing_block_offset = found.value,
                                     !.apk_signing_block = found.block,
                                     !.new_apk_signing_block =
                                       _create_apk_signing_block(
                                         DictSet(kept, WALLE_CHANNEL_BLOCK_ID,
                                                 channel_bytes))],
                      files)

\* lines 260-264: open 'r+b', seek to the old offset, read to the end
ReadCentralDir(p) ==
  LET inv == hist[p]
      path == WritePath(inv)
  IN  /\ inv.pc = "read_cd"
      /\ IF ~files[path].exists THEN Raised(p, "FileNotFoundError", files)
         ELSE Advance(p, [inv EXCEPT !.central_dir_data =
                                       Slice(files[path].data, inv.central_dir_offset,
                                             Len(files[path].data))],
                      files)

\* lines 268-269
WriteBlock(p) ==
  LET inv == hist[p]
      path == WritePath(inv)
  IN  /\ inv.pc = "write_block"
      /\ Advance(p, [inv EXCEPT !.position = inv.apk_signing_block_offset
                                               + Len(inv.new_apk_signing_block)],
                 [files EXCEPT ![path] =
                    File(FileWrite(files[path].data, inv.apk_signing_block_offset,
                                   inv.new_apk_signing_block))])

\* line 272
WriteCentralDir(p) ==
  LET inv == hist[p]
      path == WritePath(inv)
  IN  /\ inv.pc = "write_cd"
      /\ Advance(p, [inv EXCEPT !.position = inv.position + Len(inv.central_dir_data)],
                 [files EXCEPT ![path] =
                    File(FileWrite(files[path].data, inv.position,
                                   inv.central_dir_data))])

\* line 275: f.truncate() cuts, or zero-fills, at the file position
Truncate(p) ==
  LET inv == hist[p]
      path == WritePath(inv)
  IN  /\ inv.pc = "truncate"
      /\ Advance(p, inv,
                 [files EXCEPT ![path] = File(FileTruncate(files[path].data,
                                                           inv.position))])

\* lines 278-283, and return True
PatchEocd(p) ==
  LET inv == hist[p]
      path == WritePath(inv)
      data == files[path].data
      new_central_dir_offset ==
        NewCentralDirOffset(inv.apk_signing_block_offset, inv.new_apk_signing_block)
  IN  /\ inv.pc = "patch"
      /\ IF PatchPosition(data, inv.comment_length) < 0
           THEN Raised(p, "OSError", files)
         ELSE IF ~fits32(new_central_dir_offset)
           THEN Raised(p, "struct.error", files)
         ELSE Advance(p, inv,
                      [files EXCEPT ![path] =
                         File(PatchOffset(data, inv.comment_length,
                                          new_central_dir_offset))])

\* the process is killed between two file operations
Abort(p) ==
  /\ Running(hist[p])
  /\ hist[p].pc # "copy_open"
  /\ hist' = [hist EXCEPT ![p] = [@ EXCEPT !.pc = "aborted", !.at = hist[p].pc]]
  /\ UNCHANGED <<files, origin>>

\* the next file operation of invocation p
StepOf(p) ==
  \/ Copy2Open(p)
  \/ Copy2Data(p)
  \/ GetCommentLength(p)
  \/ FindCentralDirStartOffset(p)
  \/ FindApkSigningBlock(p)
  \/ ReadCentralDir(p)
  \/ WriteBlock(p)
  \/ WriteCentralDir(p)
  \/ Truncate(p)
  \/ PatchEocd(p)

StepNext == \E p \in {1, 2} : StepOf(p) \/ Abort(p)

StepSpec == StepInit /\ [][StepNext]_vars

(***************************************************************************)
(* Vocabulary of the interleaved runs.                                     *)
(***************************************************************************)
\* what invocation p does when it runs alone, from the files of the start
Alone(p) ==
  inject_channel(StepFiles(origin), hist[p].source, hist[p].target, hist[p].channel)

\* the EOCD is found, its offset field points at the central directory, which
\* is all that lies between that offset and the EOCD, and the signing
\* container ends there
SoundArchive(d) ==
  LET comment == _get_comment_length(d)
      central_dir_offset == _find_central_dir_start_offset(d, comment.value)
  IN  /\ comment.ok
      /\ _find_apk_signing_block(d, central_dir_offset).ok
      /\ Slice(d, central_dir_offset, Len(d) - EOCD_MIN_SIZE - comment.value) = CentralDir

\* invocation p has written the container and the tail and cut the file, and
\* has not patched the EOCD
BeforePatch(p) ==
  \/ hist[p].pc = "patch"
  \/ hist[p].pc = "aborted" /\ hist[p].at = "patch"

(***************************************************************************)
(* C24.  Independent destinations: when two invocations copy the same      *)
(* source into two different destinations, then however their file         *)
(* operations interleave, each invocation that returns has the result, and *)
(* leaves in its destination the bytes, of the same call run alone, and    *)
(* the source file keeps its bytes throughout.                             *)
(***************************************************************************)
C24_ParallelSafe ==
  origin.targets = "different" =>
    /\ files["src"] = StepFiles(origin)["src"]
    /\ \A p \in {1, 2} :
         hist[p].pc = "done" =>
           /\ hist[p].result = Alone(p).result
           /\ files[hist[p].target] = Alone(p).files[hist[p].target]

\* both invocations ran while the other was between its copy and its return,
\* and both returned True with a destination that is not the source
C24_Witness ==
  /\ origin.targets = "different"
  /\ \A p \in {1, 2} :
       /\ hist[p].pc = "done" /\ hist[p].result /\ hist[p].overlapped
       /\ files[hist[p].target] # files["src"]
  /\ files["dst"] # files["dst2"]

(***************************************************************************)
(* C25.  Injection is neither atomic nor guarded.  Take an invocation that *)
(* is the only writer of its destination and has overwritten the           *)
(* container, rewritten the tail and cut the file, but has not yet patched *)
(* the EOCD, or was killed at that point.  Whenever the new container's    *)
(* length differs from the old one's, the destination's offset field       *)
(* cannot be read or differs from the position where the rewritten tail    *)
(* starts, and the destination is not a sound archive.  On the standard    *)
(* layout the central directory then starts behind the new container, the  *)
(* EOCD follows it, and the offset field still holds the old offset, which *)
(* differs from the new start exactly when the lengths differ.  The        *)
(* witness is the unguarded case: two invocations into one destination.    *)
(***************************************************************************)
C25_NotAtomicNotGuarded ==
  \A p \in {1, 2} :
    LET inv == hist[p]
        d == files[inv.target].data
        start == NewCentralDirOffset(inv.apk_signing_block_offset,
                                     inv.new_apk_signing_block)
        eocd_pos == Len(d) - EOCD_MIN_SIZE - inv.comment_length
        differ == Len(inv.new_apk_signing_block) # Len(inv.apk_signing_block)
    IN  (origin.targets = "different" /\ BeforePatch(p)) =>
          /\ differ =>
               /\ \/ PatchPosition(d, inv.comment_length) < 0
                  \/ _find_central_dir_start_offset(d, inv.comment_length) # start
               /\ ~SoundArchive(d)
          /\ origin.archive.layout = "standard" =>
               /\ Slice(d, start, eocd_pos) = CentralDir
               /\ Slice(d, eocd_pos, eocd_pos + 4) = EOCD_SIGNATURE
               /\ _find_central_dir_start_offset(d, inv.comment_length)
                    = inv.central_dir_offset
               /\ differ <=> inv.central_dir_offset # start

\* two invocations into one destination both returned True, from a sound
\* source, and the destination is not a sound archive
C25_Witness ==
  /\ origin.targets = "same"
  /\ SoundArchive(files["src"].data)
  /\ \A p \in {1, 2} : hist[p].pc = "done" /\ hist[p].result
  /\ ~SoundArchive(files["dst"].data)

(***************************************************************************)
(* C28.  Injection is all-or-nothing: when an inject_channel that is the   *)
(* only writer of its destination has returned False, for whatever reason, *)
(* the destination holds the bytes of the source; when it has returned     *)
(* True, the offset field of the destination's EOCD record has been        *)
(* patched: it holds the place where the preserved central-directory bytes *)
(* start.                                                                  *)
(***************************************************************************)
C28_AllOrNothing ==
  \A p \in {1, 2} :
    LET inv == hist[p]
        d == files[inv.target].data
        comment == _get_comment_length(d)
    IN  (origin.targets = "different" /\ inv.pc = "done") =>
          /\ ~inv.result => files[inv.target] = files[inv.source]
          /\ inv.result =>
               /\ comment.ok
               /\ _find_central_dir_start_offset(d, comment.value)
                    = NewCentralDirOffset(inv.apk_signing_block_offset,
                                          inv.new_apk_signing_block)

=============================================================================
